---- MODULE Spec2Model ----
(***************************************************************************)
(* A model of the request-routing core of AIStudioToAPI:                   *)
(*   - MessageQueue (src/utils/MessageQueue.js),                            *)
(*   - the in-browser Client Agent (scripts/client/build.js),               *)
(*   - the Gemini -> OpenAI stream translator (src/core/FormatConverter.js).*)
(* Each subsystem has its own next-state relation and specification; the   *)
(* variables of the other subsystems stay at their initial values.         *)
(***************************************************************************)
EXTENDS Integers, Sequences, FiniteSets, TLC

\* ------------------------------------------------------------------ bounds
\* dequeue() calls issued on one queue
MaxCalls == 3
\* enqueue() calls made on one queue
MaxMsgs == 3
\* body chunks one upstream response delivers
MaxChunks == 1
\* Gemini chunks translated within one stream
MaxStreamChunks == 2
\* parts in one Gemini candidate
MaxParts == 2

\* the messages of an OpenAI request
MaxMessages == 3
\* nesting depth of a tool's parameters schema
MaxDepth == 2
\* contents entries of a native Gemini request
MaxEntries == 2
\* the highest index an identity file is named with
MaxIndex == 2
\* the name=value pairs of a query string
MaxParams == 2
\* the fields of a headers object
MaxHeaders == 3
\* consecutive failed attempts to reconnect
MaxAttempts == 2
\* RATE_LIMIT_MAX_ATTEMPTS: failed logins an IP has per window
MaxFailures == 2
\* the rate-limit window, in clock ticks
MaxWindow == 2
\* the clock ticks a behaviour spans
MaxTime == 4
\* startVncSession calls a behaviour holds
MaxStarts == 3
\* helper processes and browsers that end by themselves in a behaviour
MaxCloses == 1

\* ----------------------------------------------------------------- helpers
Range(s) == {s[i] : i \in DOMAIN s}

\* Array.prototype.indexOf, 1-based; 0 stands for JavaScript's -1
IndexOf(s, x) ==
    IF \E i \in DOMAIN s : s[i] = x
    THEN CHOOSE i \in DOMAIN s : s[i] = x /\ \A j \in 1..(i - 1) : s[j] # x
    ELSE 0

\* Array.prototype.splice(i, 1)
RemoveAt(s, i) == SubSeq(s, 1, i - 1) \o SubSeq(s, i + 1, Len(s))

VARIABLES
    \* ---- MessageQueue: the object's fields
    messages,          \* this.messages
    waitingResolvers,  \* this.waitingResolvers (each resolver named by its dequeue call)
    closed,            \* this.closed
    timers,            \* resolvers whose setTimeout is armed (not fired, not cleared)
    \* ---- MessageQueue: what the callers observed
    outcome,           \* per dequeue call: how its promise settled
    settleCalls,       \* per dequeue call: how often resolve/reject was invoked on it
    nCalls,            \* dequeue calls issued so far (call ids are 1..nCalls)
    nEnq,              \* enqueue calls made so far (message k is the k-th enqueued)
    accepted,          \* messages enqueued while the queue was open, in order
    refused,           \* messages enqueued while the queue was closed
    delivered,         \* <<call, message, waiters at that moment>> per resolve(message)
    callsAtClose,      \* nCalls when close() first ran (-1 before)
    pendingAtClose,    \* the waiters close() found when it first ran
    bufferedAtClose,   \* Len(messages) when close() first ran
    \* ---- Client Agent (scripts/client/build.js)
    isConnected,         \* ConnectionManager.isConnected
    activeOperations,    \* RequestProcessor.activeOperations (its keys)
    cancelledOperations, \* RequestProcessor.cancelledOperations
    pc,                  \* per request id: where _processProxyRequest stands
    aborted,             \* per request id: abortController.signal.aborted
    idleTimer,           \* per request id: the idle setTimeout is armed
    mode,                \* per request id: requestSpec.streaming_mode || "fake"
    fullBody,            \* per request id: the local fullBody
    nRead,               \* per request id: reader.read() calls that returned a value
    frames,              \* per request id: the frames handed to transmit, in order
    cancelMark,          \* per request id: Len(frames) when a cancel aborted it in flight
    trace,               \* per request id: the decoded chunks read, the status of a
                         \* non-2xx response (0: none), whether the idle timer expired
    \* ---- the server's end of the channel
    queueState,          \* per request id: its Message Queue: none, open or closed
    queueTerminal,       \* per request id: the dispatcher enqueued a terminal frame
    \* ---- FormatConverter.translateGoogleToOpenAIStream, one stream
    streamState,         \* the streamState object handed to every call of the stream
    call,                \* the call in progress: its phase, the chunk's finishReason
    nStreamChunks,       \* calls made so far
    lastFrame,           \* the frame emitted last
    hist,                \* counts over all frames emitted so far, lastFrame included;
                         \* usageAt: the latest chunk that brought usageMetadata;
                         \* geminiReason: the finishReason of the latest final frame
    nonStream,           \* what convertGoogleToOpenAINonStream returned for the
                         \* response of a non-streaming request
    \* ---- FormatConverter: OpenAI -> Gemini request
    forceThinking,       \* serverSystem.forceThinking
    googleRequest,       \* the OpenAI body of the request and what translateOpenAIToGoogle
                         \* returned for it
    \* ---- FormatConverter: native Gemini request
    geminiBody,          \* the inbound Gemini body and what ensureThoughtSignature made of it
    \* ---- RequestProcessor: the request body
    requestConfig,       \* a request descriptor and the body _buildRequestConfig built for it
    \* ---- AuthSource and the configs/auth directory
    dirExists,           \* configs/auth exists
    authFiles,           \* index -> "none", "valid" (parses) or "invalid", for auth-<index>.json
    availableIndices,
    initialIndices,
    lastScannedIndices,
    invalidSourceDescriptions, \* the indices the last validation found invalid
    revalidated,         \* a reload after construction has validated again
    afterReload,         \* nothing touched configs/auth since reloadAuthSources returned
    \* ---- identity rotation
    browser,             \* browserManager.browser is set
    currentAuthIndex,
    isSystemBusy,
    restarts,            \* the targets of the browser restarts in progress
    statusClosing,       \* a status check awaits closeBrowser()
    closedByStatus,      \* the last change of the browser was a close by the status check
    skippedWhileBusy,    \* a status check returned at the busy guard during this switch
    \* ---- FormatConverter: one response through both converters
    converted,           \* a Gemini response, the frames translateGoogleToOpenAIStream
                         \* returned for it as the only chunk of a stream, and the
                         \* choice convertGoogleToOpenAINonStream returned for it
    \* ---- RequestProcessor: the URL and the headers of the fetch
    constructed,         \* a descriptor and the URL _constructUrl returned for it
    sanitized,           \* the headers of a descriptor and what _sanitizeHeaders returned
    redirected,          \* a response header, what _transmitHeaders sent for it, the
                         \* descriptor that brought the sent URL back, the URL fetched
    \* ---- FormatConverter: two streams translated side by side
    streams,             \* per stream: its streamState object with the id and created
                         \* it fixed, the chunks translated so far, the frames returned
    clock,               \* calls of the translator so far: Date.now() and Math.random()
                         \* give every call a value of its own
    \* ---- ConnectionManager and its WebSocket objects
    connecting,          \* sockets created by establish() that have not opened or closed
    openSockets,         \* sockets whose connection is open
    reconnectTimers,     \* armed timers of _scheduleReconnect
    reconnectAttempts,   \* ConnectionManager.reconnectAttempts
    reachable,           \* the server endpoint accepts connections
    \* ---- WebRoutes: POST /login
    loginAttempts,       \* this.loginAttempts: per client IP, its record or "none"
    dateNow,             \* Date.now(), in clock ticks
    authenticated,       \* the client IPs whose session has isAuthenticated set
    lastLogin,           \* the last POST /login: its IP, whether its key was valid, the
                         \* record of the IP before and after, whether the IP was
                         \* limited when it arrived, and the answer
    platform,            \* process.platform, "unknown" until a handler first reads it
    isVncOperationInProgress, \* this.isVncOperationInProgress
    vncSession,          \* this.vncSession: the resources it holds, or NoSession for null
    starts,              \* per startVncSession call: where it stands between its awaits
    sessionResources,    \* per startVncSession call: its sessionResources object
    living,              \* the helper processes and browsers that run: <<call, name>>
    responses,           \* per startVncSession call: the status it was answered with (0: none yet)
    closes               \* helper processes and browsers that have ended by themselves

vncVars == <<platform, isVncOperationInProgress, vncSession, starts, sessionResources, living, responses, closes>>

loginVars == <<loginAttempts, dateNow, authenticated, lastLogin>>

connVars == <<connecting, openSockets, reconnectTimers, reconnectAttempts, reachable>>

isoVars == <<streams, clock>>

bothVars == <<converted>>

urlVars == <<constructed, sanitized, redirected>>

mqVars == <<messages, waitingResolvers, closed, timers, outcome, settleCalls,
            nCalls, nEnq, accepted, refused, delivered, callsAtClose,
            pendingAtClose, bufferedAtClose>>

agentVars == <<isConnected, activeOperations, cancelledOperations, pc, aborted,
               idleTimer, mode, fullBody, nRead, frames, cancelMark, trace,
               queueState, queueTerminal>>

streamVars == <<streamState, call, nStreamChunks, lastFrame, hist, nonStream>>

openaiVars == <<forceThinking, googleRequest>>

nativeVars == <<geminiBody>>

configVars == <<requestConfig>>

authVars ==
    <<dirExists, authFiles, availableIndices, initialIndices, lastScannedIndices,
      invalidSourceDescriptions, revalidated, afterReload>>

identityVars ==
    <<browser, currentAuthIndex, isSystemBusy, restarts, statusClosing, closedByStatus,
      skippedWhileBusy>>

vars ==
    <<mqVars, agentVars, streamVars, openaiVars, nativeVars, configVars, authVars,
      identityVars, bothVars, urlVars, isoVars, connVars, loginVars, vncVars>>

CallIds == 1..MaxCalls

\* A promise settles once: a later resolve/reject leaves it as it is
Settle(o, c, kind, val) ==
    IF o[c].kind = "pending" THEN [o EXCEPT ![c] = [kind |-> kind, val |-> val]] ELSE o

\* ----------------------------------------------------- MessageQueue (init)
MessageQueueInit ==
    /\ messages = <<>>
    /\ waitingResolvers = <<>>
    /\ closed = FALSE
    /\ timers = {}
    /\ outcome = [c \in CallIds |-> [kind |-> "none", val |-> 0]]
    /\ settleCalls = [c \in CallIds |-> 0]
    /\ nCalls = 0
    /\ nEnq = 0
    /\ accepted = <<>>
    /\ refused = {}
    /\ delivered = <<>>
    /\ callsAtClose = -1
    /\ pendingAtClose = {}
    /\ bufferedAtClose = 0

\* (mutant) enqueue without its closed check
EnqueueNeverReturnsEarly == FALSE

\* enqueue: if (this.closed) return;
EnqueueReturnsEarly == closed

\* (mutant) enqueue that always buffers the message
EnqueueIgnoresWaiters == FALSE

\* enqueue: if (this.waitingResolvers.length > 0)
EnqueueHasWaiter == Len(waitingResolvers) > 0

\* (mutant) the first resolver is read and left in the array
PeekResolver(ws) == <<Head(ws), ws>>

\* (mutant) pop() in place of shift()
PopResolver(ws) == <<ws[Len(ws)], SubSeq(ws, 1, Len(ws) - 1)>>

\* enqueue: this.waitingResolvers.shift(): <<the resolver taken, the array left>>
ShiftResolver(ws) == <<Head(ws), Tail(ws)>>

\* enqueue(message)
enqueue ==
    /\ nEnq < MaxMsgs
    /\ nEnq' = nEnq + 1
    /\ LET message == nEnq + 1 IN
       IF EnqueueReturnsEarly
       THEN /\ refused' = IF closed THEN refused \cup {message} ELSE refused
            /\ UNCHANGED <<messages, waitingResolvers, timers, outcome,
                           settleCalls, accepted, delivered>>
       ELSE /\ accepted' = IF closed THEN accepted ELSE Append(accepted, message)
            /\ refused' = IF closed THEN refused \cup {message} ELSE refused
            /\ IF EnqueueHasWaiter
               THEN LET shifted == ShiftResolver(waitingResolvers)
                        resolver == shifted[1]
                    IN
                    /\ waitingResolvers' = shifted[2]
                    /\ timers' = timers \ {resolver}
                    /\ outcome' = Settle(outcome, resolver, "value", message)
                    /\ settleCalls' = [settleCalls EXCEPT ![resolver] = @ + 1]
                    /\ delivered' = Append(delivered,
                                           <<resolver, message, Len(waitingResolvers)>>)
                    /\ UNCHANGED messages
               ELSE /\ messages' = Append(messages, message)
                    /\ UNCHANGED <<waitingResolvers, timers, outcome, settleCalls, delivered>>
    /\ UNCHANGED <<closed, nCalls, callsAtClose, pendingAtClose, bufferedAtClose>>

\* (mutant) dequeue without its closed check
DequeueNeverThrows == FALSE

\* dequeue: if (this.closed) throw new Error("Queue is closed")
DequeueThrows == closed

\* dequeue(timeoutMs)
dequeue ==
    /\ nCalls < MaxCalls
    /\ nCalls' = nCalls + 1
    /\ LET c == nCalls + 1 IN
       IF DequeueThrows
       THEN /\ outcome' = [outcome EXCEPT ![c] = [kind |-> "isClosedError", val |-> 0]]
            /\ settleCalls' = [settleCalls EXCEPT ![c] = @ + 1]
            /\ UNCHANGED <<messages, waitingResolvers, timers, delivered>>
       ELSE IF Len(messages) > 0
       THEN /\ outcome' = [outcome EXCEPT ![c] = [kind |-> "value", val |-> Head(messages)]]
            /\ settleCalls' = [settleCalls EXCEPT ![c] = @ + 1]
            /\ delivered' = Append(delivered, <<c, Head(messages), 0>>)
            /\ messages' = Tail(messages)
            /\ UNCHANGED <<waitingResolvers, timers>>
       ELSE /\ outcome' = [outcome EXCEPT ![c] = [kind |-> "pending", val |-> 0]]
            /\ waitingResolvers' = Append(waitingResolvers, c)
            /\ timers' = timers \cup {c}
            /\ UNCHANGED <<messages, settleCalls, delivered>>
    /\ UNCHANGED <<closed, nEnq, accepted, refused, callsAtClose, pendingAtClose,
                   bufferedAtClose>>

\* (mutant) the timer callback rejects and leaves the resolver in the array
SpliceNothing(ws, index) == ws

\* the timer callback: this.waitingResolvers.splice(index, 1)
SpliceResolver(ws, index) == RemoveAt(ws, index)

\* the setTimeout callback armed by dequeue for resolver c
dequeueTimeout(c) ==
    /\ c \in timers
    /\ timers' = timers \ {c}
    /\ LET index == IndexOf(waitingResolvers, c) IN
       IF index # 0
       THEN /\ waitingResolvers' = SpliceResolver(waitingResolvers, index)
            /\ outcome' = Settle(outcome, c, "timeout", 0)
            /\ settleCalls' = [settleCalls EXCEPT ![c] = @ + 1]
       ELSE UNCHANGED <<waitingResolvers, outcome, settleCalls>>
    /\ UNCHANGED <<messages, closed, nCalls, nEnq, accepted, refused, delivered,
                   callsAtClose, pendingAtClose, bufferedAtClose>>

RECURSIVE RejectAll(_, _)
\* waitingResolvers.forEach(resolver => resolver.reject(new Error("Queue closed")))
RejectAll(o, ws) ==
    IF ws = <<>> THEN o ELSE RejectAll(Settle(o, Head(ws), "closedError", 0), Tail(ws))

\* close()
close ==
    /\ closed' = TRUE
    /\ timers' = timers \ Range(waitingResolvers)
    /\ outcome' = RejectAll(outcome, waitingResolvers)
    /\ settleCalls' = [c \in CallIds |->
                         IF c \in Range(waitingResolvers) THEN settleCalls[c] + 1
                         ELSE settleCalls[c]]
    /\ waitingResolvers' = <<>>
    /\ messages' = <<>>
    /\ callsAtClose' = IF callsAtClose = -1 THEN nCalls ELSE callsAtClose
    /\ pendingAtClose' = IF callsAtClose = -1 THEN Range(waitingResolvers) ELSE pendingAtClose
    /\ bufferedAtClose' = IF callsAtClose = -1 THEN Len(messages) ELSE bufferedAtClose
    /\ UNCHANGED <<nCalls, nEnq, accepted, refused, delivered>>

\* ------------------------------------------------------------ Client Agent
\* the request ids the server mints (unique for the process lifetime)
Ids == {1, 2}

\* non-2xx upstream statuses
ErrorStatuses == {429}

\* _sendErrorResponse: status: error.status || 504
DefaultErrorStatus == 504

Frame(type, status, data) == [type |-> type, status |-> status, data |-> data, onWire |-> FALSE]

IsTerminal(f) == f.type \in {"stream_close", "error"}

AgentInit ==
    /\ isConnected = TRUE
    /\ activeOperations = {}
    /\ cancelledOperations = {}
    /\ pc = [id \in Ids |-> "new"]
    /\ aborted = [id \in Ids |-> FALSE]
    /\ idleTimer = [id \in Ids |-> FALSE]
    /\ mode = [id \in Ids |-> "fake"]
    /\ fullBody = [id \in Ids |-> <<>>]
    /\ nRead = [id \in Ids |-> 0]
    /\ frames = [id \in Ids |-> <<>>]
    /\ cancelMark = [id \in Ids |-> -1]
    /\ trace = [id \in Ids |-> [received |-> <<>>, upstreamStatus |-> 0, expired |-> FALSE]]
    /\ queueState = [id \in Ids |-> "none"]
    /\ queueTerminal = [id \in Ids |-> FALSE]

\* The dispatcher on the server: look the queue up by request_id and enqueue
\* (MessageQueue.enqueue is a no-op on a closed queue; unknown ids are dropped)
ServerDispatch(net, id, frame) ==
    IF net.queueState[id] = "open"
    THEN [net EXCEPT !.queueTerminal[id] = @ \/ IsTerminal(frame)]
    ELSE net

\* The handler registers a queue for the id before it sends the descriptor
ServerRegisterQueue(qs, id) ==
    IF qs[id] = "none" THEN [qs EXCEPT ![id] = "open"] ELSE qs

\* The handler closes the queue of the request it cancels
ServerCloseQueue(qs, id) == [qs EXCEPT ![id] = "closed"]

\* Disconnected: the bridge closes all registered queues
ServerCloseAllQueues(qs) ==
    [id \in Ids |-> IF qs[id] = "open" THEN "closed" ELSE qs[id]]

\* ConnectionManager.transmit(data): false and nothing sent when not connected
transmit(net, id, frame) ==
    IF ~isConnected
    THEN [net EXCEPT !.frames[id] = Append(@, frame)]
    ELSE LET sent == [frame EXCEPT !.onWire = TRUE] IN
         ServerDispatch([net EXCEPT !.frames[id] = Append(@, sent)], id, sent)

\* the frames sent so far and the server's queues, as transmit sees them
Net == [frames |-> frames, queueTerminal |-> queueTerminal, queueState |-> queueState]

\* _transmitHeaders
transmitHeaders(net, id) == transmit(net, id, Frame("response_headers", 200, <<>>))

\* (mutant) _transmitChunk that also sends empty data
transmitChunkAlways(net, id, data) == transmit(net, id, Frame("chunk", 0, data))

\* _transmitChunk: if (!data) return
transmitChunk(net, id, data) ==
    IF data = <<>> THEN net ELSE transmit(net, id, Frame("chunk", 0, data))

\* _transmitStreamEnd
transmitStreamEnd(net, id) == transmit(net, id, Frame("stream_close", 0, <<>>))

\* (mutant) _sendErrorResponse that only logs
sendErrorResponseLogsOnly(net, id, status) == net

\* (mutant) the stream end signal sent on the error path too
sendErrorResponseThenStreamEnd(net, id, status) ==
    transmitStreamEnd(
        transmit(net, id, Frame("error", IF status # 0 THEN status ELSE DefaultErrorStatus, <<>>)),
        id)

\* (mutant) _sendErrorResponse that reports every failure as 504
sendErrorResponseAs504(net, id, status) ==
    transmit(net, id, Frame("error", DefaultErrorStatus, <<>>))

\* _sendErrorResponse(error, operationId); status 0 stands for an error without .status
sendErrorResponse(net, id, status) ==
    transmit(net, id, Frame("error", IF status # 0 THEN status ELSE DefaultErrorStatus, <<>>))

\* (mutant) a finally block that leaves the tombstone in place
finallyKeepsTombstone(id) ==
    /\ idleTimer' = [idleTimer EXCEPT ![id] = FALSE]
    /\ activeOperations' = activeOperations \ {id}
    /\ cancelledOperations' = cancelledOperations
    /\ pc' = [pc EXCEPT ![id] = "done"]

\* the finally block of _processProxyRequest
finallyBlock(id) ==
    /\ idleTimer' = [idleTimer EXCEPT ![id] = FALSE]
    /\ activeOperations' = activeOperations \ {id}
    /\ cancelledOperations' = cancelledOperations \ {id}
    /\ pc' = [pc EXCEPT ![id] = "done"]

\* (mutant) the headers are transmitted before the error is reported
headersThenCatch(id, status) ==
    /\ LET net == sendErrorResponse(transmitHeaders(Net, id), id, status) IN
       /\ frames' = net.frames
       /\ queueTerminal' = net.queueTerminal
    /\ finallyBlock(id)

\* catch (error) { this._sendErrorResponse(error, operationId) } finally { ... }
catchAndFinally(id, status) ==
    /\ LET net == sendErrorResponse(Net, id, status) IN
       /\ frames' = net.frames
       /\ queueTerminal' = net.queueTerminal
    /\ finallyBlock(id)

\* _handleIncomingMessage, default case: _processProxyRequest up to its first await
handleRequest(id, m) ==
    /\ isConnected
    /\ pc[id] = "new"
    /\ queueState' = ServerRegisterQueue(queueState, id)
    /\ mode' = [mode EXCEPT ![id] = m]
    /\ IF id \in cancelledOperations
       THEN /\ LET registered == [Net EXCEPT !.queueState = ServerRegisterQueue(@, id)]
                   net == sendErrorResponse(registered, id, 0)
               IN
               /\ frames' = net.frames
               /\ queueTerminal' = net.queueTerminal
            /\ finallyBlock(id)
       ELSE \* RequestProcessor.execute
            /\ activeOperations' = activeOperations \cup {id}
            /\ idleTimer' = [idleTimer EXCEPT ![id] = TRUE]
            /\ pc' = [pc EXCEPT ![id] = "fetch"]
            /\ UNCHANGED <<cancelledOperations, frames, queueTerminal>>
    /\ UNCHANGED <<isConnected, aborted, fullBody, nRead, cancelMark, trace>>

\* (mutant) cancelOperation that records the id and aborts nothing
abortNothing(ab, id) == ab

\* cancelOperation: const controller = activeOperations.get(id); if (controller) controller.abort()
abortIfActive(ab, id) ==
    IF id \in activeOperations THEN [ab EXCEPT ![id] = TRUE] ELSE ab

\* _handleIncomingMessage, case "cancel_request": RequestProcessor.cancelOperation
handleCancelRequest(id) ==
    /\ isConnected
    /\ cancelledOperations' = cancelledOperations \cup {id}
    /\ aborted' = abortIfActive(aborted, id)
    /\ cancelMark' = IF id \in activeOperations /\ cancelMark[id] = -1
                     THEN [cancelMark EXCEPT ![id] = Len(frames[id])]
                     ELSE cancelMark
    /\ queueState' = ServerCloseQueue(queueState, id)
    /\ UNCHANGED <<isConnected, activeOperations, pc, idleTimer, mode, fullBody,
                   nRead, frames, queueTerminal, trace>>

\* await responsePromise resolves with an ok response
fetchResolves(id) ==
    /\ pc[id] = "fetch"
    /\ ~aborted[id]
    /\ IF id \in cancelledOperations
       THEN catchAndFinally(id, 0)
       ELSE /\ LET net == transmitHeaders(Net, id) IN
               /\ frames' = net.frames
               /\ queueTerminal' = net.queueTerminal
            /\ pc' = [pc EXCEPT ![id] = "read"]
            /\ UNCHANGED <<idleTimer, activeOperations, cancelledOperations>>
    /\ UNCHANGED <<isConnected, aborted, mode, fullBody, nRead, cancelMark, queueState,
                   trace>>

\* await responsePromise rejects: a non-2xx response (status), a network error or
\* an AbortError (status 0); an aborted fetch rejects with the AbortError
fetchRejects(id, status) ==
    /\ pc[id] = "fetch"
    /\ aborted[id] => status = 0
    /\ catchAndFinally(id, status)
    /\ trace' = [trace EXCEPT ![id].upstreamStatus = status]
    /\ UNCHANGED <<isConnected, aborted, mode, fullBody, nRead, cancelMark, queueState>>

\* the idle timer of execute fires: abortController.abort(); reject(error)
idleTimeout(id) ==
    /\ idleTimer[id]
    /\ aborted' = [aborted EXCEPT ![id] = TRUE]
    /\ IF pc[id] = "fetch"
       THEN catchAndFinally(id, 0)
       ELSE /\ idleTimer' = [idleTimer EXCEPT ![id] = FALSE]
            /\ UNCHANGED <<activeOperations, cancelledOperations, pc, frames, queueTerminal>>
    /\ trace' = [trace EXCEPT ![id].expired = TRUE]
    /\ UNCHANGED <<isConnected, mode, fullBody, nRead, cancelMark, queueState>>

\* (mutant) cancelTimeout that leaves the timer running
cancelTimeoutForgets(timer, id) == timer

\* cancelTimeout(): clearTimeout(timeoutId)
cancelTimeout(timer, id) == [timer EXCEPT ![id] = FALSE]

\* reader.read() returns a value: cancelTimeout(); decode; forward or accumulate
readChunk(id, empty) ==
    /\ pc[id] = "read"
    /\ ~aborted[id]
    /\ nRead[id] < MaxChunks
    /\ nRead' = [nRead EXCEPT ![id] = @ + 1]
    /\ idleTimer' = cancelTimeout(idleTimer, id)
    /\ LET chunk == IF empty THEN <<>> ELSE <<nRead[id] + 1>> IN
       /\ trace' = [trace EXCEPT ![id].received = Append(@, chunk)]
       /\ IF mode[id] = "real"
          THEN /\ LET net == transmitChunk(Net, id, chunk) IN
                  /\ frames' = net.frames
                  /\ queueTerminal' = net.queueTerminal
               /\ UNCHANGED fullBody
          ELSE /\ fullBody' = [fullBody EXCEPT ![id] = @ \o chunk]
               /\ UNCHANGED <<frames, queueTerminal>>
    /\ UNCHANGED <<isConnected, activeOperations, cancelledOperations, pc, aborted,
                   mode, cancelMark, queueState>>

\* reader.read() returns done: the loop ends, the body is flushed, stream_close
readDone(id) ==
    /\ pc[id] = "read"
    /\ ~aborted[id]
    /\ LET net1 == IF mode[id] = "fake" THEN transmitChunk(Net, id, fullBody[id]) ELSE Net
           net2 == transmitStreamEnd(net1, id)
       IN
       /\ frames' = net2.frames
       /\ queueTerminal' = net2.queueTerminal
    /\ finallyBlock(id)
    /\ UNCHANGED <<isConnected, aborted, mode, fullBody, nRead, cancelMark, queueState,
                   trace>>

\* reader.read() rejects: the body stream was errored by an abort or by the network
readRejects(id) ==
    /\ pc[id] = "read"
    /\ catchAndFinally(id, 0)
    /\ UNCHANGED <<isConnected, aborted, mode, fullBody, nRead, cancelMark, queueState,
                   trace>>

\* RequestProcessor.cancelAllOperations
cancelAllOperations(ab) == [id \in Ids |-> ab[id] \/ id \in activeOperations]

\* the socket's "close" listener: isConnected = false; "disconnected" -> cancelAllOperations
socketClose ==
    /\ isConnected
    /\ isConnected' = FALSE
    /\ aborted' = cancelAllOperations(aborted)
    /\ activeOperations' = {}
    /\ queueState' = ServerCloseAllQueues(queueState)
    /\ UNCHANGED <<cancelledOperations, pc, idleTimer, mode, fullBody, nRead, frames,
                   cancelMark, queueTerminal, trace>>

\* _scheduleReconnect -> establish(): the new socket's "open" listener
socketOpen ==
    /\ ~isConnected
    /\ isConnected' = TRUE
    /\ UNCHANGED <<activeOperations, cancelledOperations, pc, aborted, idleTimer, mode,
                   fullBody, nRead, frames, cancelMark, queueState, queueTerminal, trace>>

\* -------------------------------- ConnectionManager: the duplex channel
\* The agent starts connected, as AgentInit has it: establish() created one socket
\* and its "open" listener ran
ConnectionInit ==
    /\ connecting = 0
    /\ openSockets = 1
    /\ reconnectTimers = 0
    /\ reconnectAttempts = 0
    /\ reachable = TRUE

\* a close listener that arms no timer
scheduleNothing(armed) == armed

\* _scheduleReconnect: setTimeout(() => this.establish().catch(() => {}), reconnectDelay)
scheduleReconnect(armed) == armed + 1

\* the "close" listener of a socket: isConnected = false, "disconnected" runs
\* cancelAllOperations, _scheduleReconnect (the server drops the queues of the
\* connection it lost)
closeListener ==
    /\ isConnected' = FALSE
    /\ aborted' = cancelAllOperations(aborted)
    /\ activeOperations' = {}
    /\ queueState' = ServerCloseAllQueues(queueState)
    /\ reconnectAttempts' = reconnectAttempts + 1
    /\ reconnectTimers' = scheduleReconnect(reconnectTimers)
    /\ UNCHANGED <<cancelledOperations, pc, idleTimer, mode, fullBody, nRead, frames,
                   cancelMark, queueTerminal, trace>>

\* an open connection closes: the server closed it or it was lost
socketDrops ==
    /\ openSockets > 0
    /\ openSockets' = openSockets - 1
    /\ closeListener
    /\ UNCHANGED <<connecting, reachable>>

\* a connection attempt fails: the socket fires "error" and then "close"
attemptFails ==
    /\ connecting > 0
    /\ ~reachable
    /\ reconnectAttempts < MaxAttempts
    /\ connecting' = connecting - 1
    /\ closeListener
    /\ UNCHANGED <<openSockets, reachable>>

\* a connection attempt succeeds: the "open" listener
socketOpens ==
    /\ connecting > 0
    /\ reachable
    /\ connecting' = connecting - 1
    /\ openSockets' = openSockets + 1
    /\ isConnected' = TRUE
    /\ reconnectAttempts' = 0
    /\ UNCHANGED <<reconnectTimers, reachable, activeOperations, cancelledOperations, pc,
                   aborted, idleTimer, mode, fullBody, nRead, frames, cancelMark, trace,
                   queueState, queueTerminal>>

\* establish(): if (this.isConnected) return; this.socket = new WebSocket(endpoint)
\* (the constructor takes the endpoint it took when the agent first connected)
establish(sockets) == IF isConnected THEN sockets ELSE sockets + 1

\* a reconnect timer fires: this.establish().catch(() => {})
reconnectFires ==
    /\ reconnectTimers > 0
    /\ reconnectTimers' = reconnectTimers - 1
    /\ connecting' = establish(connecting)
    /\ UNCHANGED <<openSockets, reconnectAttempts, reachable, agentVars>>

\* the server goes down or comes up
endpointChanges ==
    /\ reachable' = ~reachable
    /\ UNCHANGED <<connecting, openSockets, reconnectTimers, reconnectAttempts,
                   agentVars>>

\* -------------------------------- WebRoutes: POST /login with rate limiting
\* the client IPs _getClientIP tells apart
ClientIPs == {"10.0.0.1", "10.0.0.2"}

\* this.loginAttempts.get(ip) finds nothing
NoAttempts == [count |-> -1, firstAttempt |-> -1]

LoginInit ==
    /\ loginAttempts = [ip \in ClientIPs |-> NoAttempts]
    /\ dateNow = 0
    /\ authenticated = {}
    /\ lastLogin = [ip |-> "", result |-> "none"]

\* this.loginAttempts.get(ip) || { count: 0, firstAttempt: now, lastAttempt: 0 }
attemptsOf(attempts, ip, t) ==
    IF attempts[ip] = NoAttempts THEN [count |-> 0, firstAttempt |-> t] ELSE attempts[ip]

\* if (now - attempts.firstAttempt > RATE_LIMIT_WINDOW) { count = 0; firstAttempt = now }
\* (the record is changed in place: a stored record is reset in the map as well)
resetExpired(attempts, ip, t) ==
    IF attempts[ip] # NoAttempts /\ t - attempts[ip].firstAttempt > MaxWindow
    THEN [attempts EXCEPT ![ip] = [count |-> 0, firstAttempt |-> t]]
    ELSE attempts

\* a check that lets every attempt through
rateLimitedNever(record) == FALSE

\* if (attempts.count >= MAX_ATTEMPTS)
rateLimited(record) == record.count >= MaxFailures

\* _cleanupExpiredAttempts(now, rateLimit)
cleanupExpiredAttempts(attempts, t) ==
    [ip \in ClientIPs |->
        IF attempts[ip] # NoAttempts /\ t - attempts[ip].firstAttempt > MaxWindow
        THEN NoAttempts ELSE attempts[ip]]

\* the count of an IP's record, 0 when it has none
countOf(attempts, ip) == IF attempts[ip] = NoAttempts THEN 0 ELSE attempts[ip].count

\* app.post("/login", ...) with rate limiting enabled (validKey: apiKey is one of
\* config.apiKeys; cleanup: Math.random() < 0.1; regenerated: session.regenerate
\* succeeds; when it fails, the store kept the old session)
postLogin(ip, validKey, cleanup, regenerated) ==
    LET reset == resetExpired(loginAttempts, ip, dateNow)
        limited == rateLimited(attemptsOf(reset, ip, dateNow))
        record == attemptsOf(reset, ip, dateNow)
        failed == [reset EXCEPT ![ip] = [record EXCEPT !.count = @ + 1]]
        after == IF limited THEN reset
                 ELSE IF validKey THEN [reset EXCEPT ![ip] = NoAttempts]
                 ELSE IF cleanup THEN cleanupExpiredAttempts(failed, dateNow)
                 ELSE failed
        result == IF limited THEN "limited"
                  ELSE IF validKey /\ regenerated THEN "ok"
                  ELSE "failed"
    IN
    /\ loginAttempts' = after
    /\ authenticated' = IF result = "ok" THEN authenticated \cup {ip} ELSE authenticated
    /\ lastLogin' = [ip |-> ip, validKey |-> validKey, result |-> result,
                     limitedBefore |->
                         /\ loginAttempts[ip] # NoAttempts
                         /\ loginAttempts[ip].count >= MaxFailures
                         /\ dateNow - loginAttempts[ip].firstAttempt <= MaxWindow,
                     before |-> loginAttempts[ip], after |-> after[ip],
                     wasAuthenticated |-> ip \in authenticated]
    /\ UNCHANGED dateNow

\* time passes
tick ==
    /\ dateNow < MaxTime
    /\ dateNow' = dateNow + 1
    /\ UNCHANGED <<loginAttempts, authenticated, lastLogin>>

\* ---------------------------------------- WebRoutes: the remote-desktop session
\* the startVncSession calls, named in the order they arrive
StartIds == 1..MaxStarts

\* the values of process.platform the handler tells apart
Platforms == {"linux", "win32"}

\* what a sessionResources object can hold: the three helper processes and the
\* browser (its context lives and dies with it)
ResourceNames == {"xvfb", "x11vnc", "websockify", "browser"}

\* this.vncSession = null
NoSession == [call |-> 0, resources |-> {}]

\* the processes and the browser a session object refers to
heldBy(session) == {<<session.call, n>> : n \in session.resources}

VncInit ==
    /\ platform = "unknown"
    /\ isVncOperationInProgress = FALSE
    /\ vncSession = NoSession
    /\ starts = [c \in StartIds |-> "none"]
    /\ sessionResources = [c \in StartIds |-> {}]
    /\ living = {}
    /\ responses = [c \in StartIds |-> 0]
    /\ closes = 0

\* _cleanupVncSession(reason), applied to the processes that run: without a session
\* it returns at once; otherwise it forgets the session, closes its context and
\* browser and kills websockify, x11vnc and Xvfb
cleanupVncSession(live) ==
    /\ vncSession' = NoSession
    /\ living' = IF vncSession = NoSession THEN live ELSE live \ heldBy(vncSession)

\* a check that never finds an operation in progress
inProgressNever(flag) == FALSE

\* if (this.isVncOperationInProgress)
inProgress(flag) == flag

\* startVncSession(req, res) up to its first await: 501 on Windows, 429 while
\* another call is in progress, otherwise the flag is set and any existing
\* session is cleaned up (p: what process.platform holds)
startVncSession(c, p) ==
    /\ starts[c] = "none"
    /\ \A d \in StartIds : d < c => starts[d] # "none"
    /\ platform \in {"unknown", p}
    /\ platform' = p
    /\ IF p = "win32"
       THEN /\ responses' = [responses EXCEPT ![c] = 501]
            /\ starts' = [starts EXCEPT ![c] = "done"]
            /\ UNCHANGED <<isVncOperationInProgress, vncSession, living>>
       ELSE IF inProgress(isVncOperationInProgress)
       THEN /\ responses' = [responses EXCEPT ![c] = 429]
            /\ starts' = [starts EXCEPT ![c] = "done"]
            /\ UNCHANGED <<isVncOperationInProgress, vncSession, living>>
       ELSE /\ isVncOperationInProgress' = TRUE
            /\ cleanupVncSession(living)
            /\ starts' = [starts EXCEPT ![c] = "xvfb"]
            /\ UNCHANGED responses
    /\ UNCHANGED <<sessionResources, closes>>

\* spawn(...) of a helper process, recorded in sessionResources (n: its name,
\* next: the await the call reaches after it)
spawnHelper(c, n, next) ==
    /\ living' = living \cup {<<c, n>>}
    /\ sessionResources' = [sessionResources EXCEPT ![c] = @ \cup {n}]
    /\ starts' = [starts EXCEPT ![c] = next]
    /\ UNCHANGED <<platform, isVncOperationInProgress, vncSession, responses, closes>>

\* the 200 ms delay is over: Xvfb is spawned
spawnXvfb(c) ==
    /\ starts[c] = "xvfb"
    /\ spawnHelper(c, "xvfb", "x11vnc")

\* the 500 ms delay is over: x11vnc is spawned
spawnX11vnc(c) ==
    /\ starts[c] = "x11vnc"
    /\ spawnHelper(c, "x11vnc", "vncPort")

\* _waitForPort(vncPort) resolves: websockify is spawned
spawnWebsockify(c) ==
    /\ starts[c] = "vncPort"
    /\ spawnHelper(c, "websockify", "websockifyPort")

\* _waitForPort(websockifyPort) resolves: the browser launch is requested
websockifyReady(c) ==
    /\ starts[c] = "websockifyPort"
    /\ starts' = [starts EXCEPT ![c] = "launch"]
    /\ UNCHANGED <<platform, isVncOperationInProgress, vncSession, sessionResources,
                   living, responses, closes>>

\* launchBrowserForVNC resolves with a browser and its context
browserLaunched(c) ==
    /\ starts[c] = "launch"
    /\ spawnHelper(c, "browser", "page")

\* newPage, setViewportSize, addInitScript and goto resolve: the session is
\* published, the idle timer armed, the call answered; finally clears the flag
sessionLive(c) ==
    /\ starts[c] = "page"
    /\ vncSession' = [call |-> c, resources |-> sessionResources[c]]
    /\ responses' = [responses EXCEPT ![c] = 200]
    /\ starts' = [starts EXCEPT ![c] = "done"]
    /\ isVncOperationInProgress' = FALSE
    /\ UNCHANGED <<platform, sessionResources, living, closes>>

\* the awaits of the try block that can reject: the two port waits (timeout),
\* the browser launch, the page calls
Rejecting == {"vncPort", "websockifyPort", "launch", "page"}

\* catch (error): _cleanupVncSession("startup_error"), then the 500 answer;
\* finally clears the flag
startFails(c) ==
    /\ starts[c] \in Rejecting
    /\ cleanupVncSession(living)
    /\ responses' = [responses EXCEPT ![c] = 500]
    /\ starts' = [starts EXCEPT ![c] = "done"]
    /\ isVncOperationInProgress' = FALSE
    /\ UNCHANGED <<platform, sessionResources, closes>>

\* a helper process exits, or the browser disconnects, by itself: its "close" or
\* "disconnected" listener calls cleanup(reason) on whatever this.vncSession is
processCloses(c, n) ==
    /\ <<c, n>> \in living
    /\ closes < MaxCloses
    /\ closes' = closes + 1
    /\ cleanupVncSession(living \ {<<c, n>>})
    /\ UNCHANGED <<platform, isVncOperationInProgress, starts, sessionResources,
                   responses>>

\* a live session is ended from outside a start: DELETE /api/vnc/sessions, the
\* 10 minute idle timer, or the timer saveAuthFile arms
sessionEnds ==
    /\ vncSession # NoSession
    /\ cleanupVncSession(living)
    /\ UNCHANGED <<platform, isVncOperationInProgress, starts, sessionResources,
                   responses, closes>>

\* ------------------------------------- FormatConverter: Gemini -> OpenAI stream
\* A Gemini part, by the first branch of the translator's if-chain it can take:
\*   thought      {thought: true, text: "..."}     thoughtEmpty {thought: true}
\*   text         {text: "..."}                    inlineData   {inlineData: {...}}
\*   functionCall {functionCall: {...}}            empty        {} or {text: ""}
PartKinds == {"thought", "thoughtEmpty", "text", "inlineData", "functionCall", "empty"}

\* candidate.finishReason as Gemini may spell it; "" stands for absent
FinishReasons == {"", "STOP", "MAX_TOKENS", "SAFETY", "Recitation", "other", "BLOCKLIST"}

\* The chunks handed to the translator, without the parts of the candidate:
\*   blank: "" or whitespace, done: "data: [DONE]", garbage: not JSON,
\*   json: a parsed response; candidate is none (no candidates[0]), noParts
\*   (content.parts is no array) or parts (the parts follow, one translatePart each)
GoogleChunks ==
    {[kind |-> k, usage |-> FALSE, candidate |-> "none", promptFeedback |-> FALSE,
      finishReason |-> ""] : k \in {"blank", "done", "garbage"}}
    \cup
    {[kind |-> "json", usage |-> u, candidate |-> "none", promptFeedback |-> pf,
      finishReason |-> ""] : u \in BOOLEAN, pf \in BOOLEAN}
    \cup
    {[kind |-> "json", usage |-> u, candidate |-> c, promptFeedback |-> FALSE,
      finishReason |-> fr] :
        u \in BOOLEAN, c \in {"noParts", "parts"}, fr \in FinishReasons}

\* String.prototype.toLowerCase on the reasons above
ToLowerCase(r) ==
    CASE r = "STOP" -> "stop"
      [] r = "MAX_TOKENS" -> "max_tokens"
      [] r = "SAFETY" -> "safety"
      [] r = "Recitation" -> "recitation"
      [] r = "BLOCKLIST" -> "blocklist"
      [] OTHER -> r

\* a reason map that looks the reason up as Gemini spelled it
mapFinishReasonCaseSensitive(geminiReason) ==
    CASE geminiReason = "max_tokens" -> "length"
      [] geminiReason = "safety" -> "content_filter"
      [] OTHER -> "stop"

\* _mapFinishReason(geminiReason)
mapFinishReason(geminiReason) ==
    LET key == ToLowerCase(IF geminiReason = "" THEN "stop" ELSE geminiReason) IN
    CASE key = "max_tokens" -> "length"
      [] key = "other" -> "stop"
      [] key = "recitation" -> "stop"
      [] key = "safety" -> "content_filter"
      [] key = "stop" -> "stop"
      [] OTHER -> "stop"

\* An emitted SSE frame: the field its delta carries (none: an empty delta; image:
\* content holding the Markdown image token), whether the delta has role
\* "assistant", the tool call's index (-1: no tool call), finish_reason ("" for
\* null) and usage (0: no usage field, k: the snapshot cached by call k)
SSEFrame(delta, role, toolIndex, finish, usage) ==
    [delta |-> delta, role |-> role, toolIndex |-> toolIndex,
     finish_reason |-> finish, usage |-> usage]

NoFrame == SSEFrame("-", FALSE, -1, "", 0)

\* the line "data: [DONE]\n\n"
DoneFrame == SSEFrame("[DONE]", FALSE, -1, "", 0)

HasContent(f) == f.delta \in {"content", "image", "reasoning_content", "tool_calls"}

\* the streamState object before the first call: {}
EmptyStreamState ==
    [id |-> FALSE, roleSent |-> FALSE, toolCallIndex |-> 0, hasFunctionCall |-> FALSE,
     usage |-> 0]

\* no response converted
NoResponse == [response |-> [candidate |-> FALSE, parts |-> <<>>, finishReason |-> ""],
               tool_calls |-> <<>>, finish_reason |-> ""]

StreamInit ==
    /\ streamState = EmptyStreamState
    /\ call = [phase |-> "idle", finishReason |-> "", walked |-> 0]
    /\ nStreamChunks = 0
    /\ lastFrame = NoFrame
    /\ hist = [frames |-> 0, content |-> 0, role |-> 0, tools |-> 0, finals |-> 0,
               roleSets |-> 0, usageAt |-> 0, geminiReason |-> ""]
    /\ nonStream = NoResponse

\* chunksToSend.push / return: the frame joins the stream's output
Emit(h, f) ==
    [h EXCEPT !.frames = @ + 1,
              !.content = IF HasContent(f) THEN @ + 1 ELSE @,
              !.role = IF f.role THEN @ + 1 ELSE @,
              !.tools = IF f.toolIndex # -1 THEN @ + 1 ELSE @,
              !.finals = IF f.finish_reason # "" THEN @ + 1 ELSE @]

\* the field of the delta a part fills
DeltaOf(part) ==
    CASE part = "thought" -> "reasoning_content"
      [] part = "text" -> "content"
      [] part = "inlineData" -> "image"
      [] part = "functionCall" -> "tool_calls"
      [] OTHER -> "none"

\* the promptFeedback branch: one frame with the error text and finish_reason "stop"
promptFeedbackFrame(st) == SSEFrame("content", FALSE, -1, "stop", 0)

\* if (hasContent) { if (!streamState.roleSent) { delta.role = "assistant"; ... } }
AttachRole(st, hasContent) == hasContent /\ ~st.roleSent

\* the final frame: delta {}, the finish_reason, the cached usage if any
finalFrame(st, finishReason) ==
    SSEFrame("none", FALSE, -1,
             IF st.hasFunctionCall THEN "tool_calls" ELSE mapFinishReason(finishReason),
             st.usage)

\* if (candidate.finishReason) { ... chunksToSend.push(final) }; return
\* (h: the history so far; it records the Gemini reason the final frame was built from)
translateFinish(st, h, finishReason) ==
    /\ IF finishReason # ""
       THEN /\ lastFrame' = finalFrame(st, finishReason)
            /\ hist' = [Emit(h, finalFrame(st, finishReason)) EXCEPT
                            !.geminiReason = finishReason]
       ELSE /\ hist' = h
            /\ UNCHANGED lastFrame
    /\ call' = [phase |-> "idle", finishReason |-> "", walked |-> 0]

\* a cache that keeps the first snapshot of the stream
CacheFirstUsage(cached, hasUsage, k) == IF hasUsage /\ cached = 0 THEN k ELSE cached

\* if (googleResponse.usageMetadata) streamState.usage = this._parseUsage(...)
\* (k: the snapshot of the k-th chunk of the stream)
CacheUsage(cached, hasUsage, k) == IF hasUsage THEN k ELSE cached

\* translateGoogleToOpenAIStream(googleChunk, modelName, streamState) up to the loop
\* over candidate.content.parts (to its return, when there is no such loop)
translateBegin(chunk) ==
    /\ call.phase = "idle"
    /\ nStreamChunks < MaxStreamChunks
    /\ nStreamChunks' = nStreamChunks + 1
    /\ IF chunk.kind \in {"blank", "garbage"}
       THEN UNCHANGED <<streamState, call, lastFrame, hist>>
       ELSE IF chunk.kind = "done"
       THEN /\ lastFrame' = DoneFrame
            /\ hist' = Emit(hist, DoneFrame)
            /\ UNCHANGED <<streamState, call>>
       ELSE LET st1 == [streamState EXCEPT
                           !.id = TRUE,
                           !.usage = CacheUsage(@, chunk.usage, nStreamChunks + 1)]
                h1 == [hist EXCEPT
                           !.usageAt = IF chunk.usage THEN nStreamChunks + 1 ELSE @]
            IN
            /\ streamState' = st1
            /\ IF chunk.candidate = "none"
               THEN /\ IF chunk.promptFeedback
                       THEN /\ lastFrame' = promptFeedbackFrame(st1)
                            /\ hist' = Emit(h1, promptFeedbackFrame(st1))
                       ELSE /\ hist' = h1
                            /\ UNCHANGED lastFrame
                    /\ UNCHANGED call
               ELSE IF chunk.candidate = "noParts"
               THEN translateFinish(st1, h1, chunk.finishReason)
               ELSE /\ call' = [phase |-> "parts", finishReason |-> chunk.finishReason,
                                walked |-> 0]
                    /\ hist' = h1
                    /\ UNCHANGED lastFrame

\* a tool call index that starts again at 0 for every call
ToolCallIndexAlwaysZero(st) == 0

\* const toolCallIndex = streamState.toolCallIndex ?? 0
ToolCallIndex(st) == st.toolCallIndex

\* one iteration of: for (const part of candidate.content.parts) { ... }
translatePart(part) ==
    /\ call.phase = "parts"
    /\ call.walked < MaxParts
    /\ call' = [call EXCEPT !.walked = @ + 1]
    /\ LET hasContent == DeltaOf(part) # "none"
           toolCallIndex == ToolCallIndex(streamState)
           st1 == IF part = "functionCall"
                  THEN [streamState EXCEPT !.toolCallIndex = toolCallIndex + 1,
                                           !.hasFunctionCall = TRUE]
                  ELSE streamState
           role == AttachRole(st1, hasContent)
           frame == SSEFrame(DeltaOf(part), role,
                             IF part = "functionCall" THEN toolCallIndex ELSE -1, "", 0)
       IN
       /\ streamState' = IF role THEN [st1 EXCEPT !.roleSent = TRUE] ELSE st1
       /\ IF hasContent
          THEN /\ lastFrame' = frame
               /\ hist' = [Emit(hist, frame) EXCEPT !.roleSets = IF role THEN @ + 1 ELSE @]
          ELSE UNCHANGED <<lastFrame, hist>>
    /\ UNCHANGED nStreamChunks

\* the loop is over: the final frame, and the call returns
translateEnd ==
    /\ call.phase = "parts"
    /\ translateFinish(streamState, hist, call.finishReason)
    /\ UNCHANGED <<streamState, nStreamChunks>>

\* -------------------------------- FormatConverter: Gemini -> OpenAI non-stream
\* candidate.content.parts of a response: up to MaxParts parts
PartSeqs == UNION {[1..n -> PartKinds] : n \in 0..MaxParts}

\* The full Gemini responses handed to the converter: without candidates[0], or
\* with a candidate, its parts and its finishReason
GoogleResponses ==
    {[candidate |-> FALSE, parts |-> <<>>, finishReason |-> ""]}
    \cup
    {[candidate |-> TRUE, parts |-> ps, finishReason |-> fr] :
        ps \in PartSeqs, fr \in FinishReasons}

\* the loop over the parts: each functionCall part pushes a tool call whose index is
\* tool_calls.length (a tool call is written as its index)
RECURSIVE nonStreamToolCalls(_, _)
nonStreamToolCalls(parts, tool_calls) ==
    IF parts = <<>> THEN tool_calls
    ELSE nonStreamToolCalls(Tail(parts),
             IF Head(parts) = "functionCall"
             THEN Append(tool_calls, Len(tool_calls))
             ELSE tool_calls)

\* a finish_reason that is always the mapped Gemini reason
nonStreamFinishReasonMapped(tool_calls, finishReason) == mapFinishReason(finishReason)

\* Determine finish_reason: tool_calls.length > 0 ? "tool_calls" : _mapFinishReason(...)
nonStreamFinishReason(tool_calls, finishReason) ==
    IF Len(tool_calls) > 0 THEN "tool_calls" ELSE mapFinishReason(finishReason)

\* convertGoogleToOpenAINonStream(googleResponse, modelName)
convertGoogleToOpenAINonStream(response) ==
    /\ nonStream' =
           IF ~response.candidate
           THEN [response |-> response, tool_calls |-> <<>>, finish_reason |-> "stop"]
           ELSE LET tool_calls == nonStreamToolCalls(response.parts, <<>>) IN
                [response |-> response, tool_calls |-> tool_calls,
                 finish_reason |-> nonStreamFinishReason(tool_calls, response.finishReason)]
    /\ UNCHANGED <<streamState, call, nStreamChunks, lastFrame, hist>>

\* -------------------------------- FormatConverter: one response, both converters
\* part.text as its characters: "", "a" or "b"
Texts == {<<>>, <<"a">>, <<"b">>}

\* part.functionCall: absent (name ""), or a call by name with args or without
FunctionCalls ==
    {[name |-> "", args |-> ""], [name |-> "f", args |-> ""], [name |-> "g", args |-> "x"]}

\* the parts of a candidate, field by field: thought, text, inlineData, functionCall
\* (a part carries at most one of text, inlineData and functionCall)
ResponseParts ==
    {[thought |-> th, text |-> t, inlineData |-> FALSE,
      functionCall |-> [name |-> "", args |-> ""]] : th \in BOOLEAN, t \in Texts}
    \cup
    {[thought |-> th, text |-> <<>>, inlineData |-> TRUE,
      functionCall |-> [name |-> "", args |-> ""]] : th \in BOOLEAN}
    \cup
    {[thought |-> th, text |-> <<>>, inlineData |-> FALSE, functionCall |-> fc] :
        th \in BOOLEAN, fc \in FunctionCalls}

\* the branch both loops take for a part: part.thought === true, else part.text,
\* else part.inlineData, else part.functionCall
KindOf(part) ==
    IF part.thought THEN (IF part.text # <<>> THEN "thought" ELSE "thoughtEmpty")
    ELSE IF part.text # <<>> THEN "text"
    ELSE IF part.inlineData THEN "inlineData"
    ELSE IF part.functionCall.name # "" THEN "functionCall"
    ELSE "empty"

\* `![Generated Image](data:${image.mimeType};base64,${image.data})`
ImageToken == <<"![Generated Image]">>

\* JSON.stringify(funcCall.args || {})
Arguments(funcCall) == IF funcCall.args = "" THEN "{}" ELSE funcCall.args

\* what a part puts into the delta of its frame, or appends to the message
PayloadOf(part) ==
    CASE KindOf(part) \in {"thought", "text"} -> part.text
      [] KindOf(part) = "inlineData" -> ImageToken
      [] OTHER -> <<>>

\* an emitted frame with what its delta holds: the text of content or
\* reasoning_content, the name and arguments of the tool call
DeltaFrame(frame, text, name, arguments) ==
    [frame |-> frame, text |-> text, name |-> name, arguments |-> arguments]

\* for (const part of candidate.content.parts) { ... } of the stream translator
\* (acc: streamState and chunksToSend)
RECURSIVE streamParts(_, _)
streamParts(parts, acc) ==
    IF parts = <<>> THEN acc
    ELSE LET part == Head(parts)
             kind == KindOf(part)
             hasContent == DeltaOf(kind) # "none"
             toolCallIndex == ToolCallIndex(acc.st)
             st1 == IF kind = "functionCall"
                    THEN [acc.st EXCEPT !.toolCallIndex = toolCallIndex + 1,
                                        !.hasFunctionCall = TRUE]
                    ELSE acc.st
             role == AttachRole(st1, hasContent)
             frame == SSEFrame(DeltaOf(kind), role,
                               IF kind = "functionCall" THEN toolCallIndex ELSE -1, "", 0)
         IN
         streamParts(Tail(parts),
             [st |-> IF role THEN [st1 EXCEPT !.roleSent = TRUE] ELSE st1,
              chunksToSend |->
                  IF hasContent
                  THEN Append(acc.chunksToSend,
                           DeltaFrame(frame, PayloadOf(part),
                               IF kind = "functionCall" THEN part.functionCall.name ELSE "",
                               IF kind = "functionCall" THEN Arguments(part.functionCall)
                               ELSE ""))
                  ELSE acc.chunksToSend])

\* translateGoogleToOpenAIStream on a chunk that parses to a response with a
\* candidate: the frames of the parts, then the final frame
streamFrames(response, st) ==
    LET walked == streamParts(response.parts,
                              [st |-> [st EXCEPT !.id = TRUE], chunksToSend |-> <<>>])
    IN
    IF response.finishReason # ""
    THEN Append(walked.chunksToSend,
                DeltaFrame(finalFrame(walked.st, response.finishReason), <<>>, "", ""))
    ELSE walked.chunksToSend

\* for (const part of candidate.content.parts) { ... } of the non-stream converter
RECURSIVE nonStreamParts(_, _)
nonStreamParts(parts, message) ==
    IF parts = <<>> THEN message
    ELSE LET part == Head(parts)
             kind == KindOf(part)
         IN
         nonStreamParts(Tail(parts),
             CASE kind \in {"thought", "thoughtEmpty"} ->
                      [message EXCEPT !.reasoning_content = @ \o part.text]
               [] kind \in {"text", "inlineData"} ->
                      [message EXCEPT !.content = @ \o PayloadOf(part)]
               [] kind = "functionCall" ->
                      [message EXCEPT !.tool_calls =
                           Append(@, [name |-> part.functionCall.name,
                                      arguments |-> Arguments(part.functionCall),
                                      index |-> Len(@)])]
               [] OTHER -> message)

\* choices[0] of what convertGoogleToOpenAINonStream returns for a response with a
\* candidate (reasoning_content "" and tool_calls <<>>: the field is not set)
nonStreamChoice(response) ==
    LET message == nonStreamParts(response.parts,
                       [content |-> <<>>, reasoning_content |-> <<>>, tool_calls |-> <<>>])
    IN
    [message |-> message,
     finish_reason |->
         nonStreamFinishReason([i \in DOMAIN message.tool_calls |->
                                    message.tool_calls[i].index],
                               response.finishReason)]

NotConverted == [done |-> FALSE]

BothInit == converted = NotConverted

\* the same response is answered once as a stream of one chunk, with a fresh
\* streamState, and once without streaming
convertBoth(response) ==
    converted' = [done |-> TRUE, response |-> response,
                  frames |-> streamFrames(response, EmptyStreamState),
                  choice |-> nonStreamChoice(response)]

\* -------------------------------- RequestProcessor: the URL of the fetch
\* this.targetDomain
targetDomain == "generativelanguage.googleapis.com"

\* hosts of the upstream origin, and one that is not
UpstreamHosts == {"generativelanguage.googleapis.com", "storage.googleapis.com"}

\* A URL string, by its components: scheme ("" for a string that starts with the
\* path), host, the path as its segments, the query as its name=value pairs as
\* written (percent-encoded or not)
Url(scheme, host, path, query) ==
    [scheme |-> scheme, host |-> host, path |-> path, query |-> query]

\* `${path}${queryString ? "?" + queryString : ""}`
PathAndQuery(path, query) == Url("", "", path, query)

\* requestSpec.url is absent
NoUrl == [scheme |-> "-"]

\* the paths of the requests the bridge serves
UrlPaths ==
    {<<"v1beta", "models", "m:streamGenerateContent">>,
     <<"v1beta", "models", "m:generateContent">>,
     <<"v1beta", "files">>,
     <<"upload", "v1beta", "files">>,
     <<"resumable", "upload", "v1beta", "files">>}

\* the application/x-www-form-urlencoded serializer percent-encodes "~"
FormEncode(value) == IF value = "a~b" THEN "a%7Eb" ELSE value

\* the application/x-www-form-urlencoded parser decodes percent-encoded bytes
FormDecode(value) == IF value = "a%7Eb" THEN "a~b" ELSE value

\* new URLSearchParams(search), url.searchParams: the decoded name-value list
parseQuery(query) == [i \in DOMAIN query |-> <<query[i][1], FormDecode(query[i][2])>>]

\* URLSearchParams.prototype.toString, url.search after a change of searchParams
serializeQuery(params) ==
    [i \in DOMAIN params |-> <<params[i][1], FormEncode(params[i][2])>>]

\* URLSearchParams.prototype.has
paramsHas(params, name) == \E i \in DOMAIN params : params[i][1] = name

\* URLSearchParams.prototype.get: the value of the first pair of that name
paramsGet(params, name) ==
    params[CHOOSE i \in DOMAIN params :
               /\ params[i][1] = name
               /\ \A j \in 1..(i - 1) : params[j][1] # name][2]

\* URLSearchParams.prototype.delete: every pair of that name goes
paramsDelete(params, name) ==
    LET keep(pair) == pair[1] # name IN SelectSeq(params, keep)

\* segment.includes(":streamGenerateContent")
IsStreamSegment(segment) == segment = "m:streamGenerateContent"

\* finalPath.replace(":streamGenerateContent", ":generateContent"): the first
\* occurrence is replaced
replaceStreamGenerateContent(path) ==
    IF \E i \in DOMAIN path : IsStreamSegment(path[i])
    THEN LET first == CHOOSE i \in DOMAIN path :
                          /\ IsStreamSegment(path[i])
                          /\ \A j \in 1..(i - 1) : ~IsStreamSegment(path[j])
         IN [path EXCEPT ![first] = "m:generateContent"]
    ELSE path

\* the branch of _constructUrl for a descriptor without url: path and query_params,
\* with the adjustments of fake streaming mode
legacyPathAndQuery(requestSpec) ==
    LET queryParams == requestSpec.query_params
        fake == requestSpec.streaming_mode = "fake"
        adjusted == IF fake /\ paramsHas(queryParams, "alt")
                            /\ paramsGet(queryParams, "alt") = "sse"
                    THEN paramsDelete(queryParams, "alt")
                    ELSE queryParams
        finalPath == IF fake THEN replaceStreamGenerateContent(requestSpec.path)
                     ELSE requestSpec.path
    IN PathAndQuery(finalPath, serializeQuery(adjusted))

\* if (pathAndQuery.match(/^https?:\/\//)) pathAndQuery = pathname + search
dropOrigin(pathAndQuery) ==
    IF pathAndQuery.scheme # ""
    THEN PathAndQuery(pathAndQuery.path, pathAndQuery.query)
    ELSE pathAndQuery

\* if (pathAndQuery.includes("__proxy_host__=")) { ... }: the host the parameter
\* names replaces the target host and the parameter is deleted, which serializes
\* the query again
takeProxyHost(pathAndQuery) ==
    LET params == parseQuery(pathAndQuery.query) IN
    IF paramsHas(params, "__proxy_host__")
    THEN [targetHost |-> paramsGet(params, "__proxy_host__"),
          pathAndQuery |-> PathAndQuery(pathAndQuery.path,
                               serializeQuery(paramsDelete(params, "__proxy_host__")))]
    ELSE [targetHost |-> targetDomain, pathAndQuery |-> pathAndQuery]

\* /v1[a-z0-9]*/ on a segment
IsVersion(segment) == segment \in {"v1", "v1beta"}

\* requestSpec.method ? requestSpec.method.toUpperCase() : "GET"
methodOf(requestSpec) ==
    CASE requestSpec.method = "" -> "GET"
      [] requestSpec.method = "post" -> "POST"
      [] OTHER -> requestSpec.method

\* if (this.targetDomain.includes("generativelanguage")) { ... }: a path that holds
\* upload/<version>/files starts at its upload/; a POST to <version>/files goes to
\* upload/<version>/files
uploadPath(cleanPath, method) ==
    LET n == Len(cleanPath)
        uploadMatch == \E i \in 1..(n - 2) :
                           /\ cleanPath[i] = "upload"
                           /\ IsVersion(cleanPath[i + 1])
                           /\ cleanPath[i + 2] = "files"
        index == CHOOSE i \in 1..n :
                     /\ cleanPath[i] = "upload" /\ i < n
                     /\ \A j \in 1..(i - 1) : cleanPath[j] # "upload"
    IN
    IF uploadMatch
    THEN (IF index > 1 THEN SubSeq(cleanPath, index, n) ELSE cleanPath)
    ELSE IF /\ method = "POST"
            /\ n >= 2 /\ IsVersion(cleanPath[1]) /\ cleanPath[2] = "files"
    THEN <<"upload">> \o cleanPath
    ELSE cleanPath

\* _constructUrl(requestSpec)
constructUrl(requestSpec) ==
    LET given == IF requestSpec.url # NoUrl THEN requestSpec.url
                 ELSE legacyPathAndQuery(requestSpec)
        taken == takeProxyHost(dropOrigin(given))
    IN Url("https:", taken.targetHost,
           uploadPath(taken.pathAndQuery.path, methodOf(requestSpec)),
           taken.pathAndQuery.query)

\* the name=value pairs a query is made of
QueryPairs ==
    {<<"alt", "sse">>, <<"alt", "json">>, <<"upload_id", "a~b">>,
     <<"__proxy_host__", "storage.googleapis.com">>}

\* query strings of up to MaxParams pairs
Queries(pairs) == UNION {[1..n -> pairs] : n \in 0..MaxParams}

\* an object's keys are distinct
DistinctNames(params) ==
    \A i, j \in DOMAIN params : params[i][1] = params[j][1] => i = j

\* a request descriptor, as far as _constructUrl reads it
UrlSpec(url, path, query_params, streaming_mode, method) ==
    [url |-> url, path |-> path, query_params |-> query_params,
     streaming_mode |-> streaming_mode, method |-> method]

NotConstructed == [done |-> FALSE]

\* const requestUrl = this._constructUrl(requestSpec)
constructRequestUrl(requestSpec) ==
    /\ constructed' = [done |-> TRUE, requestSpec |-> requestSpec,
                       url |-> constructUrl(requestSpec)]
    /\ UNCHANGED <<sanitized, redirected>>

\* -------------------------------- RequestProcessor: the headers of the fetch
\* const forbiddenHeaders = [ ... ]
forbiddenHeaders ==
    {"host", "connection", "content-length", "origin", "referer", "user-agent",
     "sec-fetch-mode", "sec-fetch-site", "sec-fetch-dest"}

\* the header names of a descriptor, as the server's HTTP parser spells them
HeaderNames ==
    forbiddenHeaders \cup {"sec-fetch-user", "content-type", "x-goog-api-key", "accept"}

\* the headers objects of up to MaxHeaders fields
HeaderObjects ==
    UNION {[names -> {"v1", "v2"}] :
               names \in {ns \in SUBSET HeaderNames : Cardinality(ns) <= MaxHeaders}}

\* a list that misses the sec-fetch-* names
forbiddenHeadersShort ==
    {"host", "connection", "content-length", "origin", "referer", "user-agent"}

deleteForbiddenShort(names) == names \ forbiddenHeadersShort

\* forbiddenHeaders.forEach(h => delete sanitized[h])
deleteForbidden(names) == names \ forbiddenHeaders

\* _sanitizeHeaders(headers)
sanitizeHeaders(headers) ==
    [name \in deleteForbidden(DOMAIN headers) |-> headers[name]]

NotSanitized == [done |-> FALSE]

\* headers: this._sanitizeHeaders(requestSpec.headers)
sanitizeRequestHeaders(headers) ==
    /\ sanitized' = [done |-> TRUE, headers |-> headers,
                     result |-> sanitizeHeaders(headers)]
    /\ UNCHANGED <<constructed, redirected>>

\* -------------------------------- ProxySystem: response headers that name a URL
\* location.protocol and location.host of the page the agent runs in
PageProtocol == "https:"

PageHost == "aistudio.google.com"

\* v.includes("googleapis.com")
includesGoogleapis(v) ==
    \/ v.host \in UpstreamHosts
    \/ \E i \in DOMAIN v.query : v.query[i][2] \in UpstreamHosts

\* the new URL: `${location.protocol}//${host}${urlObj.pathname}${newSearch}`
rewriteUrl(v, proxyHost) ==
    Url(PageProtocol, IF proxyHost # "" THEN proxyHost ELSE PageHost, v.path,
        Append(v.query, <<"__proxy_host__", v.host>>))

\* the entry of headerMap for one response header of _transmitHeaders
headerMapEntry(k, v, proxyHost) ==
    IF k \in {"location", "x-goog-upload-url"} /\ includesGoogleapis(v)
    THEN rewriteUrl(v, proxyHost)
    ELSE v

\* the pairs of the query of a URL a response header names
RedirectPairs == {<<"upload_id", "a~b">>, <<"upload_id", "a%7Eb">>, <<"alt", "sse">>}

NotRedirected == [done |-> FALSE]

\* A response header is transmitted, and the URL it was given comes back in a
\* descriptor: as url (whole, or from the path on) or as path and query_params
followHeader(k, v, proxyHost, how, streaming_mode, method) ==
    LET sent == headerMapEntry(k, v, proxyHost)
        requestSpec ==
            CASE how = "url" -> UrlSpec(sent, <<>>, <<>>, streaming_mode, method)
              [] how = "pathAndQuery" ->
                     UrlSpec(PathAndQuery(sent.path, sent.query), <<>>, <<>>,
                             streaming_mode, method)
              [] OTHER -> UrlSpec(NoUrl, sent.path, parseQuery(sent.query),
                                  streaming_mode, method)
    IN
    /\ how = "path" => DistinctNames(sent.query)
    /\ redirected' = [done |-> TRUE, name |-> k, value |-> v, sent |-> sent,
                      requestSpec |-> requestSpec, url |-> constructUrl(requestSpec)]
    /\ UNCHANGED <<constructed, sanitized>>

UrlInit ==
    /\ constructed = NotConstructed
    /\ sanitized = NotSanitized
    /\ redirected = NotRedirected

\* -------------------------------- FormatConverter: two streams side by side
StreamNames == {"A", "B"}

\* the streamState object of a request before its first chunk, with the values of
\* its id and created fields (0: not set)
FreshState == [st |-> EmptyStreamState, id |-> 0, created |-> 0]

\* The chunks of the two streams: content with a function call and usage, a function
\* call with a finishReason, a last chunk with usage, a blocked prompt, the
\* [DONE] line
StreamChunks ==
    {[kind |-> "json", usage |-> TRUE, candidate |-> "parts", promptFeedback |-> FALSE,
      finishReason |-> "",
      parts |-> <<[thought |-> FALSE, text |-> <<"a">>, inlineData |-> FALSE,
                   functionCall |-> [name |-> "", args |-> ""]],
                  [thought |-> FALSE, text |-> <<>>, inlineData |-> FALSE,
                   functionCall |-> [name |-> "f", args |-> ""]]>>],
     [kind |-> "json", usage |-> FALSE, candidate |-> "parts", promptFeedback |-> FALSE,
      finishReason |-> "MAX_TOKENS",
      parts |-> <<[thought |-> FALSE, text |-> <<>>, inlineData |-> FALSE,
                   functionCall |-> [name |-> "g", args |-> "x"]]>>],
     [kind |-> "json", usage |-> TRUE, candidate |-> "parts", promptFeedback |-> FALSE,
      finishReason |-> "STOP", parts |-> <<>>],
     [kind |-> "json", usage |-> FALSE, candidate |-> "none", promptFeedback |-> TRUE,
      finishReason |-> "", parts |-> <<>>],
     [kind |-> "done", usage |-> FALSE, candidate |-> "none", promptFeedback |-> FALSE,
      finishReason |-> "", parts |-> <<>>]}

\* an id and a created that are taken anew by every call
assignIdAlways(state, now) ==
    [state EXCEPT !.st.id = TRUE, !.id = now, !.created = now]

\* if (!streamState.id) { streamState.id = ...; streamState.created = ... }
assignId(state, now) ==
    IF ~state.st.id
    THEN [state EXCEPT !.st.id = TRUE, !.id = now, !.created = now]
    ELSE state

\* created, id: streamId of a frame (0 and 0: the [DONE] line has neither)
Stamp(frame, state) ==
    [frame |-> frame.frame, text |-> frame.text, name |-> frame.name,
     arguments |-> frame.arguments, id |-> state.id, created |-> state.created]

\* translateGoogleToOpenAIStream(googleChunk, modelName, streamState) as one call:
\* the streamState it leaves and the frames it returns (now: what Date.now() and
\* Math.random() give this call; k: the usageMetadata snapshot of this chunk)
translateChunk(chunk, state, now, k) ==
    IF chunk.kind \in {"blank", "garbage"}
    THEN [state |-> state, frames |-> <<>>]
    ELSE IF chunk.kind = "done"
    THEN [state |-> state,
          frames |-> <<Stamp(DeltaFrame(DoneFrame, <<>>, "", ""), FreshState)>>]
    ELSE LET s1 == assignId(state, now)
             s2 == [s1 EXCEPT !.st.usage = CacheUsage(@, chunk.usage, k)]
         IN
         IF chunk.candidate = "none"
         THEN [state |-> s2,
               frames |-> IF chunk.promptFeedback
                          THEN <<Stamp(DeltaFrame(promptFeedbackFrame(s2.st),
                                                  <<"blocked">>, "", ""), s2)>>
                          ELSE <<>>]
         ELSE LET walked == streamParts(chunk.parts,
                                        [st |-> s2.st, chunksToSend |-> <<>>])
                  s3 == [s2 EXCEPT !.st = walked.st]
                  chunksToSend ==
                      IF chunk.finishReason # ""
                      THEN Append(walked.chunksToSend,
                               DeltaFrame(finalFrame(walked.st, chunk.finishReason),
                                          <<>>, "", ""))
                      ELSE walked.chunksToSend
              IN [state |-> s3,
                  frames |-> [i \in DOMAIN chunksToSend |-> Stamp(chunksToSend[i], s3)]]

SideBySideInit ==
    /\ streams = [s \in StreamNames |-> [state |-> FreshState, chunks |-> <<>>,
                                         frames |-> <<>>]]
    /\ clock = 0

\* the next chunk of stream s arrives and is translated with the state of s
translateFor(s, chunk) ==
    /\ Len(streams[s].chunks) < MaxStreamChunks
    /\ LET out == translateChunk(chunk, streams[s].state, clock + 1,
                                 Len(streams[s].chunks) + 1)
       IN streams' = [streams EXCEPT ![s] =
                          [state |-> out.state, chunks |-> Append(@.chunks, chunk),
                           frames |-> @.frames \o out.frames]]
    /\ clock' = clock + 1

\* -------------------------------- FormatConverter: OpenAI -> Gemini request
\* message.tool_calls: each tool call is "function" (type "function" with a function)
\* or "other" (skipped by the converter); <<>> stands for absent or empty
ToolCallLists ==
    {<<>>, <<"function">>, <<"function", "function">>, <<"other", "function">>,
     <<"function", "other", "function">>}

\* The messages of a request: role, content ("" for absent or empty, "text" for a
\* non-empty string) and tool_calls
OpenAIMessages ==
    {[role |-> "system", content |-> "text", tool_calls |-> <<>>]}
    \cup
    {[role |-> "tool", content |-> "text", tool_calls |-> tc] :
        tc \in {<<>>, <<"function">>}}
    \cup
    {[role |-> "user", content |-> c, tool_calls |-> tc] :
        c \in {"", "text"}, tc \in {<<>>, <<"function">>}}
    \cup
    {[role |-> "assistant", content |-> c, tool_calls |-> tc] :
        c \in {"", "text"}, tc \in ToolCallLists}

\* a part of a contents entry; msg: the conversation message it was built from
Part(kind, msg, thoughtSignature) ==
    [kind |-> kind, msg |-> msg, thoughtSignature |-> thoughtSignature]

\* openaiBody.messages.filter(msg => msg.role !== "system")
conversationMessages(msgs) == SelectSeq(msgs, LAMBDA msg : msg.role # "system")

\* flushToolParts applied to googleContents and pendingToolParts
flushToolParts(googleContents, pendingToolParts) ==
    IF Len(pendingToolParts) > 0
    THEN Append(googleContents, [parts |-> pendingToolParts, role |-> "user"])
    ELSE googleContents

\* a tool branch that pushes every functionResponse as an entry of its own
pushToolPartUnbuffered(acc, part) ==
    [acc EXCEPT !.googleContents = Append(@, [parts |-> <<part>>, role |-> "user"])]

\* the tool branch: pendingToolParts.push(functionResponsePart); continue
pushToolPart(acc, part) == [acc EXCEPT !.pendingToolParts = Append(@, part)]

\* a converter that reads tool_calls off any message
hasToolCallsAnyRole(message) == TRUE

\* message.role === "assistant" && message.tool_calls && Array.isArray(message.tool_calls)
hasToolCalls(message) == message.role = "assistant"

\* a converter that signs every functionCall part
attachSignatureAlways(signatureAttachedToCall) == TRUE

\* if (!signatureAttachedToCall) { functionCallPart.thoughtSignature = DUMMY... }
attachSignature(signatureAttachedToCall) == ~signatureAttachedToCall

\* for (const toolCall of message.tool_calls): the functionCall parts pushed
RECURSIVE functionCallParts(_, _, _, _)
functionCallParts(tool_calls, msg, signatureAttachedToCall, googleParts) ==
    IF tool_calls = <<>> THEN googleParts
    ELSE IF Head(tool_calls) = "function"
    THEN functionCallParts(Tail(tool_calls), msg, TRUE,
             Append(googleParts,
                    Part("functionCall", msg, attachSignature(signatureAttachedToCall))))
    ELSE functionCallParts(Tail(tool_calls), msg, signatureAttachedToCall, googleParts)

\* the googleParts of a non-tool message: its function calls, then its text
googlePartsOf(message, msg) ==
    LET calls == IF hasToolCalls(message)
                 THEN functionCallParts(message.tool_calls, msg, FALSE, <<>>)
                 ELSE <<>>
    IN  IF message.content = "text" THEN Append(calls, Part("text", msg, FALSE)) ELSE calls

\* the loop over conversationMessages from msgIndex on, and the final flush
RECURSIVE convertMessages(_, _, _)
convertMessages(msgs, msgIndex, acc) ==
    IF msgIndex > Len(msgs)
    THEN flushToolParts(acc.googleContents, acc.pendingToolParts)
    ELSE LET message == msgs[msgIndex] IN
         IF message.role = "tool"
         THEN convertMessages(msgs, msgIndex + 1,
                  pushToolPart(acc, Part("functionResponse", msgIndex, FALSE)))
         ELSE LET flushed == flushToolParts(acc.googleContents, acc.pendingToolParts)
                  googleParts == googlePartsOf(message, msgIndex)
              IN  convertMessages(msgs, msgIndex + 1,
                      [googleContents |->
                           IF Len(googleParts) > 0
                           THEN Append(flushed,
                                    [parts |-> googleParts,
                                     role |-> IF message.role = "assistant"
                                              THEN "model" ELSE "user"])
                           ELSE flushed,
                       pendingToolParts |-> <<>>])

\* googleRequest.contents
googleContentsOf(openaiBody) ==
    convertMessages(conversationMessages(openaiBody.messages), 1,
                    [googleContents |-> <<>>, pendingToolParts |-> <<>>])

\* A thinking configuration as the client may give it under one alias: not given,
\* or an object whose include_thoughts and includeThoughts are each undefined or a
\* boolean
Undefinable == {"undefined", "true", "false"}

NoThinkingConfig ==
    [supplied |-> FALSE, include_thoughts |-> "undefined", includeThoughts |-> "undefined"]

RawThinkingConfigs ==
    {NoThinkingConfig}
    \cup
    {[supplied |-> TRUE, include_thoughts |-> a, includeThoughts |-> b] :
        a \in Undefinable, b \in Undefinable}

\* the alias chain a || b || ...: the first alias that holds a configuration
\* (google_thinking_config: extra_body.google.thinking_config, the first alias;
\*  thinking_config: openaiBody.thinking_config, the last)
rawThinkingConfigOf(openaiBody) ==
    IF openaiBody.google_thinking_config.supplied
    THEN openaiBody.google_thinking_config
    ELSE openaiBody.thinking_config

\* generationConfig without thinkingConfig
NoThinking == [present |-> FALSE, includeThoughts |-> "undefined"]

\* thinkingConfig = { includeThoughts: true }
IncludeThoughts == [present |-> TRUE, includeThoughts |-> "true"]

\* if (rawThinkingConfig) { thinkingConfig = {}; include_thoughts, else includeThoughts }
extractThinkingConfig(rawThinkingConfig) ==
    IF ~rawThinkingConfig.supplied THEN NoThinking
    ELSE [present |-> TRUE,
          includeThoughts |->
              IF rawThinkingConfig.include_thoughts # "undefined"
              THEN rawThinkingConfig.include_thoughts
              ELSE rawThinkingConfig.includeThoughts]

\* a force flag that overrides whatever the client configured
forceAppliesAlways(thinkingConfig) == forceThinking

\* this.serverSystem.forceThinking && !thinkingConfig
forceApplies(thinkingConfig) == forceThinking /\ ~thinkingConfig.present

\* Handle thinking config: extraction, reasoning_effort, force thinking
thinkingConfigOf(openaiBody) ==
    LET extracted == extractThinkingConfig(rawThinkingConfigOf(openaiBody))
        withEffort == IF ~extracted.present /\ openaiBody.reasoning_effort
                      THEN IncludeThoughts ELSE extracted
    IN  IF forceApplies(withEffort) THEN IncludeThoughts ELSE withEffort

\* The value under a "type" key: absent, a string, or a list of strings
TypeValue(kind, names) == [kind |-> kind, names |-> names]

NoType == TypeValue("absent", <<>>)

TypeValues ==
    {NoType, TypeValue("string", <<"string">>), TypeValue("string", <<"Object">>),
     TypeValue("list", <<"string", "null">>), TypeValue("list", <<"null", "integer">>),
     TypeValue("list", <<"null">>), TypeValue("list", <<"string", "integer", "null">>),
     TypeValue("list", <<"integer", "number">>)}

\* A JSON schema object: whether it has a $schema and an additionalProperties key,
\* its type, its nullable flag, and the object nested in it (under properties.x,
\* items, ...), if any; up to depth levels
RECURSIVE Schemas(_)
Schemas(depth) ==
    IF depth = 0 THEN {}
    ELSE {[schemaKey |-> sk, additionalProperties |-> ap, type |-> t,
           nullable |-> FALSE, nested |-> n] :
             sk \in BOOLEAN, ap \in BOOLEAN, t \in TypeValues,
             n \in {<<>>} \cup {<<c>> : c \in Schemas(depth - 1)}}

\* String.prototype.toUpperCase on the type names above
ToUpperCase(name) ==
    CASE name = "string" -> "STRING"
      [] name = "Object" -> "OBJECT"
      [] name = "integer" -> "INTEGER"
      [] name = "number" -> "NUMBER"
      [] name = "null" -> "NULL"
      [] OTHER -> name

\* the branch for key === "type"
convertType(type) ==
    IF type.kind = "list"
    THEN LET nonNullTypes == SelectSeq(type.names, LAMBDA t : t # "null") IN
         IF Len(nonNullTypes) = 1
         THEN TypeValue("string", <<ToUpperCase(nonNullTypes[1])>>)
         ELSE IF Len(nonNullTypes) > 1
         THEN TypeValue("list", [i \in DOMAIN nonNullTypes |-> ToUpperCase(nonNullTypes[i])])
         ELSE TypeValue("string", <<"STRING">>)
    ELSE IF type.kind = "string"
    THEN TypeValue("string", <<ToUpperCase(type.names[1])>>)
    ELSE type

\* const hasNull = types.includes("null"); if (hasNull) result.nullable = true
hasNull(type) == type.kind = "list" /\ \E i \in DOMAIN type.names : type.names[i] = "null"

\* a conversion that copies nested objects as they are
keepNested(nested) == nested

RECURSIVE convertParameterTypes(_)
RECURSIVE convertNested(_)
\* typeof obj[key] === "object": result[key] = convertParameterTypes(obj[key])
convertNested(nested) == [i \in DOMAIN nested |-> convertParameterTypes(nested[i])]

\* convertParameterTypes(obj): $schema and additionalProperties are skipped
convertParameterTypes(obj) ==
    [schemaKey |-> FALSE, additionalProperties |-> FALSE,
     type |-> convertType(obj.type),
     nullable |-> obj.nullable \/ hasNull(obj.type),
     nested |-> convertNested(obj.nested)]

\* declaration.parameters of the request's tool, if it has parameters
parametersOf(openaiBody) ==
    [i \in DOMAIN openaiBody.parameters |-> convertParameterTypes(openaiBody.parameters[i])]

\* The request bodies handed to the converter. The message loop, the thinking
\* configuration and the tools are handled by separate sections of the converter
\* that share no data, so the bodies vary one of them at a time.
DefaultBody ==
    [messages |-> <<>>, google_thinking_config |-> NoThinkingConfig,
     thinking_config |-> NoThinkingConfig, reasoning_effort |-> FALSE,
     parameters |-> <<>>]

MessagesBody(msgs) == [DefaultBody EXCEPT !.messages = msgs]

ThinkingBody(g, t, e) ==
    [DefaultBody EXCEPT !.google_thinking_config = g, !.thinking_config = t,
                        !.reasoning_effort = e]

ToolBody(schema) == [DefaultBody EXCEPT !.parameters = <<schema>>]

\* no request translated yet
NoRequest ==
    [translated |-> FALSE, openaiBody |-> DefaultBody, forceThinking |-> FALSE,
     contents |-> <<>>, thinkingConfig |-> NoThinking, parameters |-> <<>>]

OpenAIInit ==
    /\ forceThinking = FALSE
    /\ googleRequest = NoRequest

\* translateOpenAIToGoogle(openaiBody)
translateOpenAIToGoogle(openaiBody) ==
    /\ googleRequest' =
           [translated |-> TRUE, openaiBody |-> openaiBody, forceThinking |-> forceThinking,
            contents |-> googleContentsOf(openaiBody),
            thinkingConfig |-> thinkingConfigOf(openaiBody),
            parameters |-> parametersOf(openaiBody)]
    /\ UNCHANGED forceThinking

\* the settings route: this.serverSystem.forceThinking = !this.serverSystem.forceThinking
toggleForceThinking ==
    /\ forceThinking' = ~forceThinking
    /\ UNCHANGED googleRequest

\* ------------------------------------ FormatConverter: native Gemini request
\* the parts a client may send: a functionCall with or without thoughtSignature, a
\* functionResponse, a text
NativeParts ==
    {[kind |-> "functionCall", thoughtSignature |-> FALSE],
     [kind |-> "functionCall", thoughtSignature |-> TRUE],
     [kind |-> "functionResponse", thoughtSignature |-> FALSE],
     [kind |-> "text", thoughtSignature |-> FALSE]}

\* a contents entry: with a parts array, or without one
NativeEntries ==
    {[hasParts |-> FALSE, parts |-> <<>>]}
    \cup
    UNION {{[hasParts |-> TRUE, parts |-> ps] : ps \in [1..n -> NativeParts]} :
              n \in 0..MaxParts}

\* the body without a contents array
NoContents == [hasContents |-> FALSE, contents |-> <<>>]

NativeInit == geminiBody = [sanitized |-> FALSE, body |-> NoContents, result |-> NoContents]

\* a sanitizer that adds no signature
lacksSignatureNever(part) == FALSE

\* part.functionCall && !part.thoughtSignature
lacksSignature(part) == part.kind = "functionCall" /\ ~part.thoughtSignature

\* for (const part of content.parts): the parts from index i on
RECURSIVE signParts(_, _, _)
signParts(parts, i, signatureAdded) ==
    IF i > Len(parts) THEN parts
    ELSE IF lacksSignature(parts[i]) /\ ~signatureAdded
    THEN signParts([parts EXCEPT ![i].thoughtSignature = TRUE], i + 1, TRUE)
    ELSE signParts(parts, i + 1, signatureAdded)

\* the body of the loop over geminiBody.contents
signEntry(content) ==
    IF ~content.hasParts THEN content
    ELSE [content EXCEPT !.parts = signParts(@, 1, FALSE)]

\* ensureThoughtSignature(geminiBody)
ensureThoughtSignature(body) ==
    geminiBody' =
        [sanitized |-> TRUE, body |-> body,
         result |-> IF ~body.hasContents THEN body
                    ELSE [body EXCEPT !.contents =
                             [e \in DOMAIN body.contents |-> signEntry(body.contents[e])]]]

\* ------------------------------------------ RequestProcessor: request body
\* A JSON value of the body by what the filter can tell of it: the key is absent,
\* holds null (falsy), or holds a value (for an array: its elements)
Absent == [state |-> "absent", list |-> <<>>]

Null == [state |-> "null", list |-> <<>>]

Array(list) == [state |-> "array", list |-> list]

\* bodyObj.tools: each tool written as the key it carries
ToolsValues ==
    {Absent, Null, Array(<<"googleSearch">>), Array(<<"functionDeclarations">>),
     Array(<<"functionDeclarations", "urlContext">>)}

\* generationConfig.thinkingConfig: absent, null, or an object with its thinkingLevel
\* ("" for none)
ThinkingConfigs ==
    {[state |-> "absent", thinkingLevel |-> ""], [state |-> "null", thinkingLevel |-> ""],
     [state |-> "object", thinkingLevel |-> ""], [state |-> "object", thinkingLevel |-> "high"]}

\* generationConfig.responseModalities: absent, a string, or an array of strings
ModalitiesValues ==
    {Absent, [state |-> "string", list |-> <<"audio">>], Array(<<>>),
     Array(<<"AUDIO">>), Array(<<"Text", "image">>)}

\* bodyObj.generationConfig: absent, a truthy primitive, or an object
NoGenerationConfig ==
    [state |-> "absent", thinkingConfig |-> [state |-> "absent", thinkingLevel |-> ""],
     response_mime_type |-> FALSE, responseMimeType |-> FALSE,
     responseModalities |-> Absent]

EmptyGenerationConfig == [NoGenerationConfig EXCEPT !.state = "object"]

GenerationConfigs ==
    {NoGenerationConfig, [NoGenerationConfig EXCEPT !.state = "primitive"]}
    \cup
    {[state |-> "object", thinkingConfig |-> tc, response_mime_type |-> m1,
      responseMimeType |-> m2, responseModalities |-> rm] :
        tc \in ThinkingConfigs, m1 \in BOOLEAN, m2 \in BOOLEAN, rm \in ModalitiesValues}

\* the JSON objects a body may parse to
BodyObjects ==
    {[tools |-> t, toolConfig |-> k1, tool_config |-> k2, toolChoice |-> k3,
      systemInstruction |-> si, generationConfig |-> gc] :
        t \in ToolsValues, k1 \in BOOLEAN, k2 \in BOOLEAN, k3 \in BOOLEAN,
        si \in {"absent", "null", "object"}, gc \in GenerationConfigs}

EmptyObject ==
    [tools |-> Absent, toolConfig |-> FALSE, tool_config |-> FALSE, toolChoice |-> FALSE,
     systemInstruction |-> "absent", generationConfig |-> NoGenerationConfig]

\* requestSpec.path by the model-family markers it includes
PathFamilies ==
    {{}, {"-image"}, {"embedding"}, {"tts"}, {"computer-use"}, {"robotics"}}

\* a case conversion that is not idempotent
ToggleCase(str) ==
    CASE str = "audio" -> "AUDIO"
      [] str = "AUDIO" -> "audio"
      [] OTHER -> str

\* String.prototype.toUpperCase on the modalities and thinking levels above
UpperCase(str) ==
    CASE str = "audio" -> "AUDIO"
      [] str = "Text" -> "TEXT"
      [] str = "image" -> "IMAGE"
      [] str = "high" -> "HIGH"
      [] OTHER -> str

\* The value of a step of the filter: the body so far, or a TypeError thrown
Ok(obj) == [threw |-> FALSE, obj |-> obj]

Threw(obj) == [threw |-> TRUE, obj |-> obj]

\* Module 1: image, embedding and TTS models
filterUnsupported(path, bodyObj) ==
    IF path \cap {"-image", "embedding", "tts"} = {} THEN bodyObj
    ELSE LET gc == bodyObj.generationConfig IN
         [bodyObj EXCEPT
            !.tools = Absent, !.toolConfig = FALSE, !.tool_config = FALSE,
            !.toolChoice = FALSE,
            !.systemInstruction = IF @ = "object" THEN "absent" ELSE @,
            !.generationConfig =
                IF gc.state # "object" THEN gc
                ELSE [gc EXCEPT
                        !.thinkingConfig =
                            IF @.state = "object"
                            THEN [state |-> "absent", thinkingLevel |-> ""] ELSE @,
                        !.response_mime_type = FALSE,
                        !.responseMimeType = FALSE]]

\* Module 1.5: TTS forces ["AUDIO"], embedding removes responseModalities
forceAudio(path, bodyObj) ==
    LET gc == bodyObj.generationConfig IN
    IF "tts" \in path
    THEN IF gc.state = "primitive" THEN Threw(bodyObj)
         ELSE Ok([bodyObj EXCEPT
                    !.generationConfig =
                        [(IF gc.state = "absent" THEN EmptyGenerationConfig ELSE gc)
                            EXCEPT !.responseModalities = Array(<<"AUDIO">>)]])
    ELSE IF "embedding" \in path /\ gc.state = "object"
              /\ gc.responseModalities \notin {Absent}
    THEN Ok([bodyObj EXCEPT !.generationConfig.responseModalities = Absent])
    ELSE Ok(bodyObj)

\* delete generationConfig.responseModalities, if truthy
dropModalities(bodyObj) ==
    IF bodyObj.generationConfig.state = "object"
    THEN [bodyObj EXCEPT !.generationConfig.responseModalities = Absent]
    ELSE bodyObj

\* Module 2: computer-use models
filterComputerUse(path, bodyObj) ==
    IF "computer-use" \notin path THEN bodyObj
    ELSE dropModalities([bodyObj EXCEPT !.tools = Absent, !.tool_config = FALSE,
                                        !.toolChoice = FALSE])

\* Module 3: robotics models
filterRobotics(path, bodyObj) ==
    IF "robotics" \notin path THEN bodyObj
    ELSE LET kept == SelectSeq(bodyObj.tools.list,
                               LAMBDA t : t \notin {"googleSearch", "urlContext"})
             tools == IF bodyObj.tools.state # "array" THEN bodyObj.tools
                      ELSE IF kept = <<>> THEN Absent ELSE Array(kept)
         IN  dropModalities([bodyObj EXCEPT !.tools = tools])

\* upper case thinkingLevel and responseModalities; a single string is wrapped
upperCaseFields(bodyObj) ==
    LET gc == bodyObj.generationConfig IN
    IF gc.state # "object" THEN bodyObj
    ELSE [bodyObj EXCEPT
            !.generationConfig.thinkingConfig.thinkingLevel = UpperCase(@),
            !.generationConfig.responseModalities =
                IF @.state \in {"array", "string"}
                THEN Array([i \in DOMAIN @.list |-> UpperCase(@.list[i])])
                ELSE @]

\* the try block from JSON.parse to JSON.stringify, for a body that parsed to an object
filterBody(path, bodyObj) ==
    LET forced == forceAudio(path, filterUnsupported(path, bodyObj)) IN
    IF forced.threw THEN forced
    ELSE Ok(upperCaseFields(filterRobotics(path, filterComputerUse(path, forced.obj))))

\* A request descriptor: method, whether it is a binary upload (!is_generative with
\* body_b64), the path, and the body: none, text that is no JSON, the JSON text
\* "null", or the JSON text of an object
RequestSpec(method, binary, path, json, bodyObj) ==
    [method |-> method, binary |-> binary, path |-> path, json |-> json,
     bodyObj |-> bodyObj]

\* config.body: none, the decoded blob, requestSpec.body as it came (raw), or the
\* filtered object stringified (json)
Body(kind, bodyObj) == [kind |-> kind, bodyObj |-> bodyObj]

\* the body part of _buildRequestConfig(requestSpec, signal)
bodyOf(requestSpec) ==
    IF requestSpec.method \notin {"POST", "PUT", "PATCH"} THEN Body("none", EmptyObject)
    ELSE IF requestSpec.binary THEN Body("blob", EmptyObject)
    ELSE IF requestSpec.json = "none" THEN Body("none", EmptyObject)
    ELSE IF requestSpec.json \in {"invalid", "null"} THEN Body("raw", requestSpec.bodyObj)
    ELSE LET filtered == filterBody(requestSpec.path, requestSpec.bodyObj) IN
         IF filtered.threw THEN Body("raw", requestSpec.bodyObj)
         ELSE Body("json", filtered.obj)

NoConfig ==
    [built |-> FALSE, requestSpec |-> RequestSpec("GET", FALSE, {}, "none", EmptyObject),
     body |-> Body("none", EmptyObject)]

ConfigInit == requestConfig = NoConfig

\* _buildRequestConfig(requestSpec, signal)
buildRequestConfig(requestSpec) ==
    requestConfig' = [built |-> TRUE, requestSpec |-> requestSpec,
                      body |-> bodyOf(requestSpec)]

\* ------------------------------------------------------------ AuthSource
AuthIndices == 0..MaxIndex

\* Array.prototype.sort((a, b) => a - b) of the distinct members
RECURSIVE SortAscending(_)
SortAscending(indices) ==
    IF indices = {} THEN <<>>
    ELSE LET least == CHOOSE i \in indices : \A j \in indices : i <= j
         IN  <<least>> \o SortAscending(indices \ {least})

\* _getAuthContent(index) is there and JSON.parse takes it
parses(content) == content = "valid"

\* _discoverAvailableIndices(): the new availableIndices and initialIndices
discoverAvailableIndices(dir, files, available) ==
    IF ~dir THEN [availableIndices |-> <<>>, initialIndices |-> <<>>]
    ELSE [availableIndices |-> available,
          initialIndices |-> SortAscending({i \in AuthIndices : files[i] # "none"})]

\* a validation that filters nothing
keepAllInitial(initial, files) == initial

\* _preValidateAndFilter(): the new availableIndices
preValidateAndFilter(initial, files) ==
    SortAscending(Range(SelectSeq(initial, LAMBDA index : parses(files[index]))))

\* the indices _preValidateAndFilter() describes as invalid
invalidSources(initial, files) == {index \in Range(initial) : ~parses(files[index])}

\* reloadAuthSources(isInitialLoad) as a function of the AuthSource and the directory
reloaded(isInitialLoad, dir, files, available, lastScanned, invalid) ==
    LET found == discoverAvailableIndices(dir, files, available)
        newIndices == found.initialIndices
        validate == isInitialLoad \/ lastScanned # newIndices
    IN  [availableIndices |-> IF validate THEN preValidateAndFilter(newIndices, files)
                              ELSE found.availableIndices,
         initialIndices |-> newIndices,
         lastScannedIndices |-> IF validate THEN newIndices ELSE lastScanned,
         invalidSourceDescriptions |-> IF validate THEN invalidSources(newIndices, files)
                                       ELSE invalid,
         validated |-> validate]

\* new AuthSource(logger) on a fresh installation: no configs/auth yet
AuthInit ==
    /\ dirExists = FALSE
    /\ authFiles = [i \in AuthIndices |-> "none"]
    /\ LET loaded == reloaded(TRUE, dirExists, authFiles, <<>>, <<>>, {}) IN
       /\ availableIndices = loaded.availableIndices
       /\ initialIndices = loaded.initialIndices
       /\ lastScannedIndices = loaded.lastScannedIndices
       /\ invalidSourceDescriptions = loaded.invalidSourceDescriptions
    /\ revalidated = FALSE
    /\ afterReload = TRUE

\* reloadAuthSources()
reloadAuthSources ==
    LET loaded == reloaded(FALSE, dirExists, authFiles, availableIndices,
                           lastScannedIndices, invalidSourceDescriptions) IN
    /\ availableIndices' = loaded.availableIndices
    /\ initialIndices' = loaded.initialIndices
    /\ lastScannedIndices' = loaded.lastScannedIndices
    /\ invalidSourceDescriptions' = loaded.invalidSourceDescriptions
    /\ revalidated' = (revalidated \/ loaded.validated)
    /\ afterReload' = TRUE
    /\ UNCHANGED <<dirExists, authFiles>>

\* an identity file is created, overwritten or corrupted
writeAuthFile(index, content) ==
    /\ authFiles[index] # content
    /\ dirExists' = TRUE
    /\ authFiles' = [authFiles EXCEPT ![index] = content]
    /\ UNCHANGED <<availableIndices, initialIndices, lastScannedIndices,
                   invalidSourceDescriptions, revalidated>>
    /\ afterReload' = FALSE

\* an identity file is deleted
unlinkAuthFile(index) ==
    /\ authFiles[index] # "none"
    /\ authFiles' = [authFiles EXCEPT ![index] = "none"]
    /\ UNCHANGED <<dirExists, availableIndices, initialIndices, lastScannedIndices,
                   invalidSourceDescriptions, revalidated>>
    /\ afterReload' = FALSE

\* the configs/auth directory is removed with all it holds
removeAuthDir ==
    /\ dirExists
    /\ dirExists' = FALSE
    /\ authFiles' = [i \in AuthIndices |-> "none"]
    /\ UNCHANGED <<availableIndices, initialIndices, lastScannedIndices,
                   invalidSourceDescriptions, revalidated>>
    /\ afterReload' = FALSE

\* ------------------------------------------------------ identity rotation
\* what the status check writes to the cursor for "no valid account is active"
NoActiveIdentity == 0

\* Idle: no browser, no active identity
IdentityInit ==
    /\ browser = FALSE
    /\ currentAuthIndex = NoActiveIdentity
    /\ isSystemBusy = FALSE
    /\ restarts = {}
    /\ statusClosing = FALSE
    /\ closedByStatus = FALSE
    /\ skippedWhileBusy = FALSE

\* next(i): the successor of i in the valid set, in sorted order, wrapping around
nextAuth(available, i) ==
    IF \E k \in DOMAIN available : available[k] > i
    THEN available[CHOOSE k \in DOMAIN available :
                      available[k] > i /\ \A l \in 1..(k - 1) : available[l] <= i]
    ELSE available[1]

\* a switch request is refused while a switch is in progress
switchRefused == isSystemBusy

\* Switching(i -> j) begins: the browser is restarted with identity j
switchBegin(targetIndex) ==
    /\ isSystemBusy' = TRUE
    /\ restarts' = restarts \cup {targetIndex}
    /\ closedByStatus' = FALSE
    /\ UNCHANGED <<browser, currentAuthIndex, statusClosing, skippedWhileBusy>>

\* _switchToSpecificAuth(targetIndex), up to its restart
switchToSpecificAuth(targetIndex) ==
    IF switchRefused \/ targetIndex \notin Range(availableIndices)
    THEN UNCHANGED identityVars
    ELSE switchBegin(targetIndex)

\* _switchToNextAuth(), up to its restart
switchToNextAuth ==
    IF switchRefused \/ availableIndices = <<>>
    THEN UNCHANGED identityVars
    ELSE switchBegin(nextAuth(availableIndices, currentAuthIndex))

\* PUT /api/accounts/current with a targetIndex
putCurrentAccount(targetIndex) ==
    /\ switchToSpecificAuth(targetIndex)
    /\ UNCHANGED authVars

\* PUT /api/accounts/current without a targetIndex
putNextAccount ==
    /\ IF Len(availableIndices) <= 1 THEN UNCHANGED identityVars ELSE switchToNextAuth
    /\ UNCHANGED authVars

\* Idle -- serve --> Active(i0), and the switches the usage and failure counters trigger
automaticSwitch ==
    /\ availableIndices # <<>>
    /\ switchToNextAuth
    /\ UNCHANGED authVars

\* the restart succeeded: Active(j)
switchSucceeded(targetIndex) ==
    /\ targetIndex \in restarts
    /\ restarts' = restarts \ {targetIndex}
    /\ isSystemBusy' = (restarts' # {})
    /\ browser' = TRUE
    /\ currentAuthIndex' = targetIndex
    /\ closedByStatus' = FALSE
    /\ skippedWhileBusy' = FALSE
    /\ UNCHANGED <<statusClosing, authVars>>

\* the restart failed: the next identity is tried, or the system goes Idle
switchFailed(targetIndex, retry) ==
    /\ targetIndex \in restarts
    /\ IF retry /\ availableIndices # <<>>
       THEN /\ restarts' = (restarts \ {targetIndex})
                              \cup {nextAuth(availableIndices, targetIndex)}
            /\ UNCHANGED <<isSystemBusy, currentAuthIndex, browser, skippedWhileBusy>>
       ELSE /\ restarts' = restarts \ {targetIndex}
            /\ isSystemBusy' = (restarts' # {})
            /\ currentAuthIndex' = NoActiveIdentity
            /\ browser' = FALSE
            /\ skippedWhileBusy' = FALSE
    /\ UNCHANGED <<statusClosing, closedByStatus, authVars>>

\* a status check that runs its validity check whatever is in progress
statusSkipsNever == FALSE

\* GET /api/status skips the validity check while the system is busy
statusSkips == isSystemBusy

\* GET /api/status, up to its await of closeBrowser()
getStatus ==
    /\ reloadAuthSources
    /\ IF /\ ~statusSkips
          /\ browser
          /\ currentAuthIndex \notin Range(availableIndices')
       THEN statusClosing' = TRUE
       ELSE UNCHANGED statusClosing
    /\ skippedWhileBusy' = (skippedWhileBusy \/ statusSkips)
    /\ UNCHANGED <<browser, currentAuthIndex, isSystemBusy, restarts, closedByStatus>>

\* GET /api/status after closeBrowser() returned: the cursor is reset
statusClosed ==
    /\ statusClosing
    /\ statusClosing' = FALSE
    /\ browser' = FALSE
    /\ currentAuthIndex' = NoActiveIdentity
    /\ closedByStatus' = TRUE
    /\ UNCHANGED <<isSystemBusy, restarts, skippedWhileBusy, authVars>>

\* GET /api/status after closeBrowser() threw: the error is logged
statusCloseFailed ==
    /\ statusClosing
    /\ statusClosing' = FALSE
    /\ UNCHANGED <<browser, currentAuthIndex, isSystemBusy, restarts, closedByStatus,
                   skippedWhileBusy, authVars>>

Init ==
    /\ MessageQueueInit /\ AgentInit /\ StreamInit /\ OpenAIInit /\ NativeInit
    /\ ConfigInit /\ AuthInit /\ IdentityInit
    /\ BothInit
    /\ UrlInit
    /\ SideBySideInit
    /\ ConnectionInit
    /\ LoginInit
    /\ VncInit

\* ---------------------------------------------------------- specifications
OnlyMQ ==
    UNCHANGED <<vncVars, loginVars, connVars, isoVars, urlVars, bothVars, agentVars, streamVars, openaiVars, nativeVars, configVars, authVars, identityVars>>

NextMQ ==
    \/ enqueue /\ OnlyMQ
    \/ dequeue /\ OnlyMQ
    \/ \E c \in CallIds : dequeueTimeout(c) /\ OnlyMQ
    \/ close /\ OnlyMQ

SpecMQ == Init /\ [][NextMQ]_vars

\* a timer armed by setTimeout fires unless it is cleared
SpecMQFair == SpecMQ /\ \A c \in CallIds : WF_vars(dequeueTimeout(c) /\ OnlyMQ)

OnlyAgent ==
    UNCHANGED <<vncVars, loginVars, connVars, isoVars, urlVars, bothVars, mqVars, streamVars, openaiVars, nativeVars, configVars, authVars, identityVars>>

NextAgent ==
    \/ \E id \in Ids, m \in {"real", "fake"} : handleRequest(id, m) /\ OnlyAgent
    \/ \E id \in Ids : handleCancelRequest(id) /\ OnlyAgent
    \/ \E id \in Ids : fetchResolves(id) /\ OnlyAgent
    \/ \E id \in Ids, st \in {0} \cup ErrorStatuses : fetchRejects(id, st) /\ OnlyAgent
    \/ \E id \in Ids : idleTimeout(id) /\ OnlyAgent
    \/ \E id \in Ids, empty \in BOOLEAN : readChunk(id, empty) /\ OnlyAgent
    \/ \E id \in Ids : readDone(id) /\ OnlyAgent
    \/ \E id \in Ids : readRejects(id) /\ OnlyAgent
    \/ socketClose /\ OnlyAgent
    \/ socketOpen /\ OnlyAgent

SpecAgent == Init /\ [][NextAgent]_vars

\* A pending fetch or read settles: the upstream answers or fails, and an aborted
\* fetch or body stream rejects
OperationStep(id) ==
    /\ \/ fetchResolves(id)
       \/ \E st \in {0} \cup ErrorStatuses : fetchRejects(id, st)
       \/ \E empty \in BOOLEAN : readChunk(id, empty)
       \/ readDone(id)
       \/ readRejects(id)
    /\ OnlyAgent

SpecAgentFair == SpecAgent /\ \A id \in Ids : WF_vars(OperationStep(id))

OnlyStream ==
    UNCHANGED <<vncVars, loginVars, connVars, isoVars, urlVars, bothVars, mqVars, agentVars, openaiVars, nativeVars, configVars, authVars, identityVars>>

\* a response is converted by the stream translator, chunk by chunk, or as a whole
\* by the non-stream converter, as the request asked
Streaming == nonStream = NoResponse /\ UNCHANGED nonStream

NonStreaming == nStreamChunks = 0

NextStream ==
    \/ \E chunk \in GoogleChunks : Streaming /\ translateBegin(chunk) /\ OnlyStream
    \/ \E part \in PartKinds : Streaming /\ translatePart(part) /\ OnlyStream
    \/ Streaming /\ translateEnd /\ OnlyStream
    \/ \E response \in GoogleResponses :
           NonStreaming /\ convertGoogleToOpenAINonStream(response) /\ OnlyStream

SpecStream == Init /\ [][NextStream]_vars

OnlyBoth ==
    UNCHANGED <<vncVars, loginVars, connVars, isoVars, urlVars, mqVars, agentVars, streamVars, openaiVars, nativeVars, configVars, authVars, identityVars>>

\* the model follows one response
NextBoth ==
    \/ /\ ~converted.done
       /\ \E n \in 0..MaxParts : \E parts \in [1..n -> ResponseParts] :
          \E finishReason \in FinishReasons \ {""} :
              convertBoth([parts |-> parts, finishReason |-> finishReason]) /\ OnlyBoth

SpecBoth == Init /\ [][NextBoth]_vars

OnlyUrl ==
    UNCHANGED <<vncVars, loginVars, connVars, isoVars, mqVars, agentVars, streamVars, openaiVars, nativeVars, configVars, authVars, identityVars, bothVars>>

\* the model follows one descriptor
NextUrl ==
    \/ /\ ~constructed.done
       /\ \E scheme \in {"", "https:"}, path \in UrlPaths, query \in Queries(QueryPairs),
             streaming_mode \in {"", "real", "fake"}, method \in {"GET", "POST", "post"} :
              constructRequestUrl(
                  UrlSpec(Url(scheme, IF scheme = "" THEN "" ELSE "localhost:7860",
                              path, query),
                          <<>>, <<>>, streaming_mode, method)) /\ OnlyUrl
    \/ /\ ~constructed.done
       /\ \E path \in UrlPaths, query \in Queries(QueryPairs),
             streaming_mode \in {"", "real", "fake"}, method \in {"GET", "POST", "post"} :
              /\ DistinctNames(query)
              /\ constructRequestUrl(
                     UrlSpec(NoUrl, path, parseQuery(query), streaming_mode, method))
              /\ OnlyUrl

SpecUrl == Init /\ [][NextUrl]_vars

NextHeaders ==
    \/ /\ ~sanitized.done
       /\ \E headers \in HeaderObjects : sanitizeRequestHeaders(headers) /\ OnlyUrl

SpecHeaders == Init /\ [][NextHeaders]_vars

\* the model follows one response header
NextRedirect ==
    \/ /\ ~redirected.done
       /\ \E k \in {"location", "x-goog-upload-url", "content-location"},
             host \in UpstreamHosts \cup {"example.com"}, path \in UrlPaths,
             query \in Queries(RedirectPairs), proxyHost \in {"", "localhost:7860"},
             how \in {"url", "pathAndQuery", "path"},
             streaming_mode \in {"real", "fake"}, method \in {"GET", "POST"} :
              followHeader(k, Url("https:", host, path, query), proxyHost, how,
                           streaming_mode, method) /\ OnlyUrl

SpecRedirect == Init /\ [][NextRedirect]_vars

OnlySideBySide ==
    UNCHANGED <<vncVars, loginVars, connVars, mqVars, agentVars, streamVars, openaiVars, nativeVars, configVars, authVars, identityVars, bothVars, urlVars>>

NextSideBySide ==
    \/ \E s \in StreamNames, chunk \in StreamChunks :
           translateFor(s, chunk) /\ OnlySideBySide

SpecSideBySide == Init /\ [][NextSideBySide]_vars

OnlyConnection ==
    UNCHANGED <<vncVars, loginVars, mqVars, streamVars, openaiVars, nativeVars, configVars, authVars, identityVars, bothVars, urlVars, isoVars>>

NextConnection ==
    \/ \E id \in Ids, m \in {"real", "fake"} :
           handleRequest(id, m) /\ UNCHANGED connVars /\ OnlyConnection
    \/ \E id \in Ids : fetchResolves(id) /\ UNCHANGED connVars /\ OnlyConnection
    \/ \E id \in Ids, st \in {0} \cup ErrorStatuses :
           fetchRejects(id, st) /\ UNCHANGED connVars /\ OnlyConnection
    \/ \E id \in Ids : readDone(id) /\ UNCHANGED connVars /\ OnlyConnection
    \/ \E id \in Ids : readRejects(id) /\ UNCHANGED connVars /\ OnlyConnection
    \/ socketDrops /\ OnlyConnection
    \/ attemptFails /\ OnlyConnection
    \/ socketOpens /\ OnlyConnection
    \/ reconnectFires /\ OnlyConnection
    \/ endpointChanges /\ OnlyConnection

\* an armed timer fires, and an attempt at a reachable endpoint succeeds
SpecConnection ==
    /\ Init /\ [][NextConnection]_vars
    /\ WF_vars(reconnectFires /\ OnlyConnection)
    /\ WF_vars(socketOpens /\ OnlyConnection)

OnlyLogin ==
    UNCHANGED <<vncVars, mqVars, agentVars, streamVars, openaiVars, nativeVars, configVars, authVars, identityVars, bothVars, urlVars, isoVars, connVars>>

NextLogin ==
    \/ \E ip \in ClientIPs, validKey \in BOOLEAN, cleanup \in BOOLEAN,
          regenerated \in BOOLEAN :
           postLogin(ip, validKey, cleanup, regenerated) /\ OnlyLogin
    \/ tick /\ OnlyLogin

SpecLogin == Init /\ [][NextLogin]_vars

OnlyVnc ==
    UNCHANGED <<mqVars, agentVars, streamVars, openaiVars, nativeVars, configVars, authVars, identityVars, bothVars, urlVars, isoVars, connVars, loginVars>>

\* the steps a start that is in progress takes by itself
startProceeds ==
    \E c \in StartIds :
        \/ spawnXvfb(c)
        \/ spawnX11vnc(c)
        \/ spawnWebsockify(c)
        \/ websockifyReady(c)
        \/ browserLaunched(c)
        \/ sessionLive(c)
        \/ startFails(c)

NextVnc ==
    \/ \E c \in StartIds, p \in Platforms : startVncSession(c, p) /\ OnlyVnc
    \/ \E c \in StartIds : spawnXvfb(c) /\ OnlyVnc
    \/ \E c \in StartIds : spawnX11vnc(c) /\ OnlyVnc
    \/ \E c \in StartIds : spawnWebsockify(c) /\ OnlyVnc
    \/ \E c \in StartIds : websockifyReady(c) /\ OnlyVnc
    \/ \E c \in StartIds : browserLaunched(c) /\ OnlyVnc
    \/ \E c \in StartIds : sessionLive(c) /\ OnlyVnc
    \/ \E c \in StartIds : startFails(c) /\ OnlyVnc
    \/ \E c \in StartIds, n \in ResourceNames : processCloses(c, n) /\ OnlyVnc
    \/ sessionEnds /\ OnlyVnc

\* every await of a start settles: the delays end, the port waits and the page
\* load resolve or time out, the launch resolves or throws
SpecVnc ==
    /\ Init /\ [][NextVnc]_vars
    /\ WF_vars(startProceeds /\ OnlyVnc)

OnlyOpenAI ==
    UNCHANGED <<vncVars, loginVars, connVars, isoVars, urlVars, bothVars, mqVars, agentVars, streamVars, nativeVars, configVars, authVars, identityVars>>

\* the model follows one request: its body is translated once
Untranslated == ~googleRequest.translated

NextOpenAI ==
    \/ /\ Untranslated
       /\ \E n \in 0..MaxMessages : \E msgs \in [1..n -> OpenAIMessages] :
              translateOpenAIToGoogle(MessagesBody(msgs)) /\ OnlyOpenAI
    \/ /\ Untranslated
       /\ \E g \in RawThinkingConfigs, t \in RawThinkingConfigs, e \in BOOLEAN :
              translateOpenAIToGoogle(ThinkingBody(g, t, e)) /\ OnlyOpenAI
    \/ /\ Untranslated
       /\ \E schema \in Schemas(MaxDepth) :
              translateOpenAIToGoogle(ToolBody(schema)) /\ OnlyOpenAI
    \/ toggleForceThinking /\ OnlyOpenAI

SpecOpenAI == Init /\ [][NextOpenAI]_vars

OnlyNative ==
    UNCHANGED <<vncVars, loginVars, connVars, isoVars, urlVars, bothVars, mqVars, agentVars, streamVars, openaiVars, configVars, authVars, identityVars>>

\* the model follows one native request: its body is sanitized once
Unsanitized == ~geminiBody.sanitized

NextNative ==
    \/ /\ Unsanitized
       /\ ensureThoughtSignature(NoContents) /\ OnlyNative
    \/ /\ Unsanitized
       /\ \E n \in 0..MaxEntries : \E contents \in [1..n -> NativeEntries] :
              ensureThoughtSignature([hasContents |-> TRUE, contents |-> contents])
              /\ OnlyNative

SpecNative == Init /\ [][NextNative]_vars

OnlyConfig ==
    UNCHANGED <<vncVars, loginVars, connVars, isoVars, urlVars, bothVars, mqVars, agentVars, streamVars, openaiVars, nativeVars, authVars,
                identityVars>>

\* the model follows one descriptor: its config is built once
Unbuilt == ~requestConfig.built

NextConfig ==
    \/ /\ Unbuilt
       /\ \E path \in PathFamilies, bodyObj \in BodyObjects :
              buildRequestConfig(RequestSpec("POST", FALSE, path, "object", bodyObj))
              /\ OnlyConfig
    \/ /\ Unbuilt
       /\ \E method \in {"GET", "POST"}, binary \in BOOLEAN, path \in PathFamilies,
             json \in {"none", "invalid", "null"} :
              buildRequestConfig(RequestSpec(method, binary, path, json, EmptyObject))
              /\ OnlyConfig

SpecConfig == Init /\ [][NextConfig]_vars

OnlyAuth ==
    UNCHANGED <<vncVars, loginVars, connVars, isoVars, urlVars, bothVars, mqVars, agentVars, streamVars, openaiVars, nativeVars, configVars,
                identityVars>>

NextAuth ==
    \/ reloadAuthSources /\ OnlyAuth
    \/ \E index \in AuthIndices, content \in {"valid", "invalid"} :
          writeAuthFile(index, content) /\ OnlyAuth
    \/ \E index \in AuthIndices : unlinkAuthFile(index) /\ OnlyAuth
    \/ removeAuthDir /\ OnlyAuth

SpecAuth == Init /\ [][NextAuth]_vars

OnlyIdentity ==
    UNCHANGED <<vncVars, loginVars, connVars, isoVars, urlVars, bothVars, mqVars, agentVars, streamVars, openaiVars, nativeVars, configVars>>

NextIdentity ==
    \/ \E index \in AuthIndices :
          writeAuthFile(index, "valid") /\ UNCHANGED identityVars /\ OnlyIdentity
    \/ \E index \in AuthIndices :
          unlinkAuthFile(index) /\ UNCHANGED identityVars /\ OnlyIdentity
    \/ getStatus /\ OnlyIdentity
    \/ statusClosed /\ OnlyIdentity
    \/ statusCloseFailed /\ OnlyIdentity
    \/ \E targetIndex \in AuthIndices : putCurrentAccount(targetIndex) /\ OnlyIdentity
    \/ putNextAccount /\ OnlyIdentity
    \/ automaticSwitch /\ OnlyIdentity
    \/ \E targetIndex \in AuthIndices : switchSucceeded(targetIndex) /\ OnlyIdentity
    \/ \E targetIndex \in AuthIndices, retry \in BOOLEAN :
          switchFailed(targetIndex, retry) /\ OnlyIdentity

SpecIdentity == Init /\ [][NextIdentity]_vars

\* ================================================================== claims

\* ---- C1 (under SpecAgentFair) -------------------------------------------
TerminalDelivered(id) == queueTerminal[id]

DeliveredMessages == [i \in DOMAIN delivered |-> delivered[i][2]]

\* C2: on an open queue messages are delivered to dequeue calls in the order they
\* were enqueued, each to exactly one call (none duplicated, none skipped while the
\* queue is open), and waiting dequeue calls are served in the order they were issued.
C2_FifoExactlyOnce ==
    /\ Len(delivered) <= Len(accepted)
    /\ \A i \in DOMAIN delivered : delivered[i][2] = accepted[i]
    /\ ~closed => accepted = DeliveredMessages \o messages
    /\ \A i, j \in DOMAIN delivered : i < j => delivered[i][1] < delivered[j][1]
    /\ \A i, j \in DOMAIN waitingResolvers :
           i < j => waitingResolvers[i] < waitingResolvers[j]
    /\ \A i \in DOMAIN delivered :
           outcome[delivered[i][1]] = [kind |-> "value", val |-> delivered[i][2]]
    /\ \A c \in CallIds :
           outcome[c].kind = "value" => \E i \in DOMAIN delivered : delivered[i][1] = c

\* two messages were handed out on an open queue, one of them to the first of
\* several waiting calls
C2_Witness ==
    /\ ~closed
    /\ Len(delivered) >= 2
    /\ \E i \in DOMAIN delivered : delivered[i][3] >= 2

\* ---- C3 (under SpecMQ) --------------------------------------------------
\* C3: in every reachable state of the queue, if a waiter is registered then the
\* message buffer is empty.
C3_WaiterImpliesEmptyBuffer ==
    Len(waitingResolvers) > 0 => messages = <<>>

\* a waiter is registered after messages were enqueued and a timer expired
C3_Witness ==
    /\ Len(waitingResolvers) > 0
    /\ nEnq > 0
    /\ \E c \in CallIds : outcome[c].kind = "timeout"

\* ---- C4 (under SpecMQ) --------------------------------------------------
\* C4: a dequeue call rejected with the timeout error never receives a value: its
\* waiter left the queue when the timer fired (resolve is never invoked on it), and a
\* message enqueued afterwards is not lost: it is buffered or was handed to a call
\* that received it.
C4_TimedOutWaiterNeverServed ==
    /\ \A c \in CallIds :
           outcome[c].kind = "timeout" =>
               /\ c \notin Range(waitingResolvers)
               /\ c \notin timers
               /\ settleCalls[c] = 1
               /\ \A i \in DOMAIN delivered : delivered[i][1] # c
    /\ ~closed =>
           \A k \in DOMAIN accepted :
               \/ accepted[k] \in Range(messages)
               \/ \E i \in DOMAIN delivered :
                      /\ delivered[i][2] = accepted[k]
                      /\ outcome[delivered[i][1]].kind = "value"
                      /\ outcome[delivered[i][1]].val = accepted[k]

\* a call timed out and a later call took a message from the buffer: the message
\* was enqueued after the timeout (before it, the waiting call would have got it)
C4_Witness ==
    \E c \in CallIds :
        /\ outcome[c].kind = "timeout"
        /\ \E i \in DOMAIN delivered : delivered[i][1] > c /\ delivered[i][3] = 0

\* ---- C5 (under SpecMQ) --------------------------------------------------
\* C5: enqueue on a closed queue is a silent no-op: the buffer, the waiter list and
\* every dequeue call's result stay as they are, and the message is never delivered.
C5_EnqueueOnClosedIsNoOp ==
    /\ [][(closed /\ nEnq' # nEnq) =>
            UNCHANGED <<messages, waitingResolvers, closed, timers, outcome,
                        settleCalls, delivered, accepted>>]_vars
    /\ [](\A i \in DOMAIN delivered : delivered[i][2] \notin refused)

\* enqueue was called on a closed queue
C5_Witness == closed /\ refused # {}

\* ---- C6 (under SpecMQ) --------------------------------------------------
\* C6: once the queue is closed every dequeue call fails with a close error, also
\* when messages were buffered at close, and every waiter pending at close was
\* rejected with a close error: none is left pending.
C6_ClosedQueueRejects ==
    closed =>
        /\ waitingResolvers = <<>>
        /\ timers = {}
        /\ messages = <<>>
        /\ \A c \in 1..nCalls : outcome[c].kind # "pending"
        /\ \A c \in pendingAtClose : outcome[c].kind = "closedError"
        /\ \A c \in (callsAtClose + 1)..nCalls : outcome[c].kind = "isClosedError"

\* the queue was closed with messages buffered and dequeue was called afterwards
C6_Witness ==
    /\ closed
    /\ bufferedAtClose > 0
    /\ nCalls > callsAtClose

\* ---- C7 (under SpecAgent) -----------------------------------------------
\* C7: when a cancel_request is handled for an id whose operation is in flight, the id
\* is in the tombstone set and the operation's abort token is fired, so that the
\* operation hands no further response_headers, chunk or stream_close frame to
\* transmit and ends with an error frame.
C7_CancelAbortsInFlight ==
    \A id \in Ids :
        cancelMark[id] # -1 =>
            /\ aborted[id]
            /\ pc[id] \in {"fetch", "read"} => id \in cancelledOperations
            /\ Len(frames[id]) <= cancelMark[id] + 1
            /\ \A i \in (cancelMark[id] + 1)..Len(frames[id]) : frames[id][i].type = "error"
            /\ pc[id] = "done" =>
                   /\ Len(frames[id]) = cancelMark[id] + 1
                   /\ frames[id][Len(frames[id])].type = "error"

\* an operation cancelled after its headers went out has ended with an error frame
\* on the wire
C7_Witness ==
    \E id \in Ids :
        /\ cancelMark[id] >= 1
        /\ pc[id] = "done"
        /\ frames[id][Len(frames[id])].type = "error"
        /\ frames[id][Len(frames[id])].onWire

\* ---- C8 (under SpecAgent) -----------------------------------------------
\* C8: once every started operation has finished, activeOperations is empty and the
\* tombstone set holds no id of a finished operation.
C8_EverythingReleased ==
    (\A id \in Ids : pc[id] \notin {"fetch", "read"}) =>
        /\ activeOperations = {}
        /\ \A id \in Ids : pc[id] = "done" => id \notin cancelledOperations

\* ---- C9 (under SpecAgent) -----------------------------------------------
\* C9: for each request id at most one terminal frame is emitted, no
\* response_headers or chunk frame follows it, and response_headers precedes every
\* chunk frame (a chunk on the wire has its response_headers on the wire before it).
C9_FrameOrder ==
    \A id \in Ids :
        LET fs == frames[id] IN
        /\ Cardinality({i \in DOMAIN fs : IsTerminal(fs[i])}) <= 1
        /\ \A i \in DOMAIN fs : IsTerminal(fs[i]) => i = Len(fs)
        /\ \A i, j \in DOMAIN fs :
               (fs[i].type = "response_headers" /\ fs[j].type = "chunk") => i < j
        /\ \A j \in DOMAIN fs :
               fs[j].type = "chunk" => \E i \in 1..(j - 1) : fs[i].type = "response_headers"
        /\ \A j \in DOMAIN fs :
               (fs[j].type = "chunk" /\ fs[j].onWire) =>
                   \E i \in 1..(j - 1) : fs[i].type = "response_headers" /\ fs[i].onWire

\* a real-mode operation sent headers, chunks and stream_close, all on the wire
C9_Witness ==
    \E id \in Ids :
        /\ mode[id] = "real"
        /\ pc[id] = "done"
        /\ Len(frames[id]) >= 3
        /\ frames[id][1].type = "response_headers"
        /\ frames[id][2].type = "chunk"
        /\ frames[id][Len(frames[id])].type = "stream_close"
        /\ \A i \in DOMAIN frames[id] : frames[id][i].onWire

\* ---- C10 (under SpecStream) ---------------------------------------------
\* C10: within one stream delta.role = "assistant" is on exactly one frame, the first
\* emitted frame whose delta carries content; roleSent becomes true at most once and
\* no later frame carries a role.
C10_RoleOnFirstContentFrame ==
    /\ hist.role <= 1
    /\ hist.roleSets <= 1
    /\ lastFrame # NoFrame =>
           (lastFrame.role <=> (HasContent(lastFrame) /\ hist.content = 1))

\* ---- C11 (under SpecStream) ---------------------------------------------
\* C11: across one stream the index of every emitted tool_calls entry equals the
\* number of functionCall parts converted before it in that stream, so the indices
\* are 0, 1, 2, ... in emission order without gaps or repeats, however the parts
\* are split across chunks.
C11_ToolCallIndexCounts ==
    /\ streamState.toolCallIndex = hist.tools
    /\ lastFrame.toolIndex # -1 => lastFrame.toolIndex = hist.tools - 1

\* the third function call of a stream was converted in the second or a later chunk
C11_Witness ==
    /\ lastFrame.toolIndex = 2
    /\ nStreamChunks >= 2

\* ---- C12 (under SpecStream) ---------------------------------------------
\* the finish-reason map: stop->stop, max_tokens->length, safety->content_filter,
\* recitation->stop, other->stop, in any letter case; everything else, and a missing
\* reason, is stop
ExpectedFinishReason(geminiReason) ==
    CASE geminiReason \in {"max_tokens", "MAX_TOKENS", "Max_Tokens"} -> "length"
      [] geminiReason \in {"safety", "SAFETY", "Safety"} -> "content_filter"
      [] OTHER -> "stop"

\* C12: the finish_reason of a final streaming frame is "tool_calls" whenever a
\* functionCall part was converted earlier in the stream (in this or a previous
\* chunk), otherwise the mapped Gemini reason; the non-streaming converter applies
\* the same rule to the parts and the finishReason of the single response.
C12_FinishReason ==
    /\ (lastFrame.delta = "none" /\ lastFrame.finish_reason # "") =>
           lastFrame.finish_reason =
               IF hist.tools > 0 THEN "tool_calls"
               ELSE ExpectedFinishReason(hist.geminiReason)
    /\ (nonStream # NoResponse /\ nonStream.response.candidate) =>
           nonStream.finish_reason =
               IF \E i \in DOMAIN nonStream.response.parts :
                      nonStream.response.parts[i] = "functionCall"
               THEN "tool_calls"
               ELSE ExpectedFinishReason(nonStream.response.finishReason)

\* a final frame built from MAX_TOKENS says "tool_calls": three function calls were
\* converted in the stream, at least one of them in the previous chunk
C12_Witness ==
    /\ lastFrame.delta = "none"
    /\ lastFrame.finish_reason = "tool_calls"
    /\ hist.geminiReason = "MAX_TOKENS"
    /\ hist.tools = 3

\* ---- C13 (under SpecStream) ---------------------------------------------
\* C13: usage is attached only to the final frame: a frame emitted with finish_reason
\* null carries no usage field, a frame that carries usage carries the most recent
\* usageMetadata snapshot received in the stream up to and including its chunk, and
\* the final frame carries that snapshot whenever one was received.
C13_UsageOnlyOnFinalFrame ==
    [][hist'.frames # hist.frames =>
          /\ lastFrame'.finish_reason = "" => lastFrame'.usage = 0
          /\ lastFrame'.usage # 0 => lastFrame'.usage = hist'.usageAt
          /\ (lastFrame'.delta = "none" /\ lastFrame'.finish_reason # "") =>
                 lastFrame'.usage = hist'.usageAt]_vars

\* the final frame emitted for the second chunk carries that chunk's snapshot
C13_Witness ==
    /\ lastFrame.finish_reason # ""
    /\ lastFrame.usage = 2
    /\ hist.usageAt = 2
    /\ streamState.usage = 2
    /\ nStreamChunks = 2

\* ---- C14 (under SpecOpenAI) ---------------------------------------------
\* C14: in the contents produced for any message list, every entry that contains a
\* functionCall part has role "model" and every entry that contains a
\* functionResponse part has role "user".
C14_FunctionPartRoles ==
    \A e \in DOMAIN googleRequest.contents :
        LET entry == googleRequest.contents[e] IN
        \A i \in DOMAIN entry.parts :
            /\ entry.parts[i].kind = "functionCall" => entry.role = "model"
            /\ entry.parts[i].kind = "functionResponse" => entry.role = "user"

\* a request whose user message carries tool_calls, next to an assistant message
\* with tool calls and a tool message, was translated
C14_Witness ==
    /\ googleRequest.translated
    /\ \E i \in DOMAIN googleRequest.openaiBody.messages :
           LET m == googleRequest.openaiBody.messages[i] IN
           m.role = "user" /\ m.tool_calls # <<>>
    /\ \E e \in DOMAIN googleRequest.contents :
           googleRequest.contents[e].parts[1].kind = "functionCall"
    /\ \E e \in DOMAIN googleRequest.contents :
           googleRequest.contents[e].parts[1].kind = "functionResponse"

\* ---- C15 (under SpecOpenAI) ---------------------------------------------
\* the non-system messages of the translated request
C15_Conversation == conversationMessages(googleRequest.openaiBody.messages)

\* a..b is a maximal run of consecutive tool messages
C15_IsToolRun(a, b) ==
    /\ a <= b
    /\ \A k \in a..b : C15_Conversation[k].role = "tool"
    /\ a = 1 \/ C15_Conversation[a - 1].role # "tool"
    /\ b = Len(C15_Conversation) \/ C15_Conversation[b + 1].role # "tool"

\* the functionResponse parts of the messages a..b, in message order
C15_RunParts(a, b) == [i \in 1..(b - a + 1) |-> Part("functionResponse", a + i - 1, FALSE)]

\* C15: every maximal run of consecutive tool messages (among the non-system
\* messages) is emitted as exactly one contents entry whose parts are the run's
\* functionResponse parts in message order; every entry with a functionResponse
\* part is the entry of such a run, so two runs separated by a non-tool message are
\* two entries and no functionResponse is dropped or duplicated; and the entries
\* stand in the order of the messages they were built from.
C15_ToolRunsCoalesce ==
    LET contents == googleRequest.contents
        n == Len(C15_Conversation)
    IN
    /\ \A a \in 1..n, b \in 1..n :
           C15_IsToolRun(a, b) =>
               Cardinality({e \in DOMAIN contents :
                               contents[e].parts = C15_RunParts(a, b)}) = 1
    /\ \A e \in DOMAIN contents :
           (\E i \in DOMAIN contents[e].parts :
                contents[e].parts[i].kind = "functionResponse") =>
               \E a \in 1..n, b \in 1..n :
                   C15_IsToolRun(a, b) /\ contents[e].parts = C15_RunParts(a, b)
    /\ \A e1 \in DOMAIN contents, e2 \in DOMAIN contents :
           e1 < e2 =>
               \A i \in DOMAIN contents[e1].parts, j \in DOMAIN contents[e2].parts :
                   contents[e1].parts[i].msg < contents[e2].parts[j].msg

\* two tool runs separated by a message that yields no entry of its own were
\* translated into two adjacent entries
C15_Witness ==
    /\ googleRequest.translated
    /\ Len(googleRequest.contents) = 2
    /\ googleRequest.contents[1].parts = C15_RunParts(1, 1)
    /\ googleRequest.contents[2].parts = C15_RunParts(3, 3)

\* ---- C16 (under SpecOpenAI) ---------------------------------------------
\* C16: in each contents entry built from an assistant message with tool_calls,
\* exactly the first functionCall part carries the placeholder thoughtSignature and
\* no later functionCall part (and no other part) carries one.
C16_SignatureOnFirstCall ==
    \A e \in DOMAIN googleRequest.contents :
        LET parts == googleRequest.contents[e].parts IN
        \A i \in DOMAIN parts :
            parts[i].thoughtSignature <=>
                /\ parts[i].kind = "functionCall"
                /\ \A j \in 1..(i - 1) : parts[j].kind # "functionCall"

\* an assistant message whose first tool call was skipped and whose two other tool
\* calls were converted
C16_Witness ==
    \E e \in DOMAIN googleRequest.contents :
        LET parts == googleRequest.contents[e].parts
            m == C15_Conversation[parts[1].msg]
        IN
        /\ m.tool_calls = <<"function", "other", "function">>
        /\ Len(parts) >= 2
        /\ parts[1].kind = "functionCall" /\ parts[2].kind = "functionCall"

\* ---- C19 (under SpecOpenAI) ---------------------------------------------
\* the thinking configuration the client supplied: under the first alias that holds one
C19_ClientConfig ==
    IF googleRequest.openaiBody.google_thinking_config.supplied
    THEN googleRequest.openaiBody.google_thinking_config
    ELSE googleRequest.openaiBody.thinking_config

RECURSIVE C18_Clean(_)
C18_Clean(out) ==
    /\ ~out.schemaKey
    /\ ~out.additionalProperties
    /\ \A i \in DOMAIN out.type.names :
           out.type.names[i] \in {"STRING", "OBJECT", "INTEGER", "NUMBER", "NULL"}
    /\ \A i \in DOMAIN out.nested : C18_Clean(out.nested[i])

\* the type lists are rewritten, at every depth: one type T and "null" becomes type T
\* (upper-cased) with nullable true, only "null" becomes type STRING
RECURSIVE C18_Rewritten(_, _)
C18_Rewritten(in, out) ==
    /\ in.type = TypeValue("list", <<"string", "null">>) =>
           out.type = TypeValue("string", <<"STRING">>) /\ out.nullable
    /\ in.type = TypeValue("list", <<"null", "integer">>) =>
           out.type = TypeValue("string", <<"INTEGER">>) /\ out.nullable
    /\ in.type = TypeValue("list", <<"null">>) => out.type = TypeValue("string", <<"STRING">>)
    /\ in.type.kind = "string" => out.type.kind = "string"
    /\ Len(out.nested) = Len(in.nested)
    /\ \A i \in DOMAIN in.nested : C18_Rewritten(in.nested[i], out.nested[i])

C17_EveryCallSigned ==
    \A e \in DOMAIN geminiBody.result.contents :
        LET parts == geminiBody.result.contents[e].parts IN
        \A i \in DOMAIN parts :
            parts[i].kind = "functionCall" => parts[i].thoughtSignature

\* C17, amended: after ensureThoughtSignature the first functionCall part of every
\* contents entry carries a thoughtSignature; in each entry only the first
\* functionCall part that lacked one gains the placeholder, and every other part is
\* left as it was.
C17_FirstCallSigned ==
    geminiBody.sanitized =>
        /\ DOMAIN geminiBody.result.contents = DOMAIN geminiBody.body.contents
        /\ \A e \in DOMAIN geminiBody.result.contents :
               LET before == geminiBody.body.contents[e].parts
                   after == geminiBody.result.contents[e].parts
                   lacking == {i \in DOMAIN before :
                                  before[i].kind = "functionCall"
                                  /\ ~before[i].thoughtSignature}
               IN
               /\ DOMAIN after = DOMAIN before
               /\ \A i \in DOMAIN after :
                      /\ after[i].kind = before[i].kind
                      /\ after[i].thoughtSignature <=>
                             \/ before[i].thoughtSignature
                             \/ i \in lacking /\ \A j \in lacking : i <= j
                      /\ (after[i].kind = "functionCall"
                          /\ \A j \in 1..(i - 1) : after[j].kind # "functionCall") =>
                             after[i].thoughtSignature

\* an entry with two functionCall parts, both without thoughtSignature, was sanitized
C17_Witness ==
    /\ geminiBody.sanitized
    /\ \E e \in DOMAIN geminiBody.body.contents :
           LET before == geminiBody.body.contents[e].parts IN
           /\ Len(before) = 2
           /\ \A i \in 1..2 : before[i] = [kind |-> "functionCall", thoughtSignature |-> FALSE]

\* ---- C20 (under SpecConfig) ---------------------------------------------
\* C20: for a POST descriptor whose path names a TTS model and whose body is valid
\* JSON, the body sent upstream has no tools, toolConfig, toolChoice,
\* systemInstruction, generationConfig.thinkingConfig or response MIME type field,
\* and its generationConfig.responseModalities is exactly ["AUDIO"], whatever the
\* incoming body contained.
C20_TtsBodyFiltered ==
    LET requestSpec == requestConfig.requestSpec
        sent == requestConfig.body.bodyObj
    IN
    (/\ requestConfig.built
     /\ requestSpec.method = "POST" /\ ~requestSpec.binary
     /\ "tts" \in requestSpec.path
     /\ requestSpec.json = "object") =>
        /\ sent.tools = Absent
        /\ ~sent.toolConfig /\ ~sent.toolChoice
        /\ sent.systemInstruction # "object"
        /\ sent.generationConfig.state = "object"
        /\ sent.generationConfig.thinkingConfig.state # "object"
        /\ ~sent.generationConfig.response_mime_type
        /\ ~sent.generationConfig.responseMimeType
        /\ sent.generationConfig.responseModalities = Array(<<"AUDIO">>)

\* ---- C21 (under SpecConfig) ---------------------------------------------
\* C21: the body filter is idempotent: for any JSON body and any model family,
\* filtering the body that was sent gives that same body again; in particular a
\* responseModalities that was upper-cased, or wrapped from a single string into an
\* array, is left as it is by a second pass.
C21_FilterIdempotent ==
    LET requestSpec == requestConfig.requestSpec
        sent == requestConfig.body
    IN
    (requestConfig.built /\ sent.kind \in {"json", "raw"} /\ requestSpec.json = "object") =>
        bodyOf([requestSpec EXCEPT !.bodyObj = sent.bodyObj]) = sent

\* a single-string responseModalities was wrapped and upper-cased
C21_Witness ==
    /\ requestConfig.built
    /\ requestConfig.body.kind = "json"
    /\ requestConfig.requestSpec.bodyObj.generationConfig.responseModalities.state = "string"
    /\ requestConfig.body.bodyObj.generationConfig.responseModalities = Array(<<"AUDIO">>)
    /\ requestConfig.body.bodyObj # requestConfig.requestSpec.bodyObj

C23_SentinelAfterStatusClose ==
    closedByStatus =>
        /\ ~browser
        /\ currentAuthIndex = NoActiveIdentity
        /\ currentAuthIndex \notin Range(initialIndices)

C25_CancelBeforeRequest ==
    [][\A id \in Ids :
        (pc[id] = "new" /\ id \in cancelledOperations /\ pc'[id] # "new") =>
            /\ pc'[id] = "done"
            /\ id \notin activeOperations'
            /\ ~idleTimer'[id]
            /\ Len(frames'[id]) = 1
            /\ frames'[id][1].type = "error"
            /\ id \notin cancelledOperations']_vars

\* a descriptor that arrived after its cancel_request: one error frame, sent to a
\* queue that was closed before, no abort, and the tombstone is gone
C25_Witness ==
    \E id \in Ids :
        /\ pc[id] = "done"
        /\ Len(frames[id]) = 1
        /\ frames[id][1].type = "error" /\ frames[id][1].onWire
        /\ ~aborted[id]
        /\ ~queueTerminal[id]
        /\ trace[id].upstreamStatus = 0
        /\ id \notin cancelledOperations

\* ---- C26 (under SpecAgent) ----------------------------------------------
\* C26: for an upstream response with a non-2xx status the Client Agent sends no
\* response_headers frame and no chunk frame; the only frame it sends for the
\* request id is one error frame.
C26_NonOkOnlyErrorFrame ==
    \A id \in Ids :
        trace[id].upstreamStatus # 0 =>
            /\ pc[id] = "done"
            /\ Len(frames[id]) = 1
            /\ frames[id][1].type = "error"

\* an upstream 429 was answered with its error frame
C26_Witness ==
    \E id \in Ids :
        /\ trace[id].upstreamStatus = 429
        /\ frames[id] # <<>>
        /\ frames[id][1].onWire

\* ---- C27 (under SpecAgent) ----------------------------------------------
\* the data of the chunk frames sent for id, in order
C27_ChunkData(id) ==
    LET chunkFrames == SelectSeq(frames[id], LAMBDA f : f.type = "chunk")
    IN  [i \in DOMAIN chunkFrames |-> chunkFrames[i].data]

RECURSIVE C27_Concat(_)
C27_Concat(chunks) ==
    IF chunks = <<>> THEN <<>> ELSE Head(chunks) \o C27_Concat(Tail(chunks))

C27_NonEmpty(chunks) == SelectSeq(chunks, LAMBDA chunk : chunk # <<>>)

\* the success path so far: response_headers first, then only chunk frames, and
\* stream_close last once the operation is done
C27_SuccessShape(id) ==
    /\ frames[id] # <<>>
    /\ frames[id][1].type = "response_headers"
    /\ \A i \in 2..Len(frames[id]) :
          \/ frames[id][i].type = "chunk"
          \/ i = Len(frames[id]) /\ pc[id] = "done" /\ frames[id][i].type = "stream_close"
    /\ pc[id] = "done" => frames[id][Len(frames[id])].type = "stream_close"

C27_OnSuccessPath(id) ==
    \/ pc[id] = "read" /\ ~aborted[id]
    \/ pc[id] = "done" /\ frames[id] # <<>>
          /\ frames[id][Len(frames[id])].type = "stream_close"

C28_ErrorFrameStatus ==
    \A id \in Ids : \A i \in DOMAIN frames[id] :
        frames[id][i].type = "error" =>
            frames[id][i].status = IF trace[id].upstreamStatus # 0
                                   THEN trace[id].upstreamStatus
                                   ELSE 504

\* one request failed with the upstream's 429, another by its idle timeout with 504
C28_Witness ==
    \E a, b \in Ids :
        /\ pc[a] = "done" /\ trace[a].upstreamStatus = 429
        /\ frames[a][Len(frames[a])].status = 429
        /\ pc[b] = "done" /\ trace[b].expired
        /\ frames[b][Len(frames[b])].type = "error"
        /\ frames[b][Len(frames[b])].status = 504

\* ---- C29 (under SpecAgent) ----------------------------------------------
\* C29: the idle timeout of an operation is armed when the operation is dispatched
\* and disarmed when the first body chunk is received or the fetch fails; it expires
\* only while armed, its expiry aborts the fetch and the request then ends with an
\* error frame of status 504; once disarmed it is never armed again.
C29_IdleTimeout ==
    /\ [][\A id \in Ids :
            /\ (pc[id] = "new" /\ pc'[id] = "fetch") => idleTimer'[id]
            /\ Len(trace'[id].received) > Len(trace[id].received) => ~idleTimer'[id]
            /\ (pc[id] = "fetch" /\ pc'[id] = "done") => ~idleTimer'[id]
            /\ (~trace[id].expired /\ trace'[id].expired) =>
                    idleTimer[id] /\ ~idleTimer'[id] /\ aborted'[id]
            /\ (pc[id] # "new" /\ ~idleTimer[id]) => ~idleTimer'[id]]_vars
    /\ [](\A id \in Ids :
            (trace[id].expired /\ pc[id] = "done") =>
                /\ frames[id][Len(frames[id])].type = "error"
                /\ frames[id][Len(frames[id])].status = 504)

\* one operation's timer was disarmed by its first chunk and it completed; the
\* other's expired after the headers and it ended with an error frame
C29_Witness ==
    \E a, b \in Ids :
        /\ pc[a] = "done" /\ trace[a].received # <<>> /\ ~trace[a].expired
        /\ frames[a][Len(frames[a])].type = "stream_close"
        /\ pc[b] = "done" /\ trace[b].expired
        /\ frames[b][1].type = "response_headers"
        /\ frames[b][Len(frames[b])].type = "error"

\* ---- C30 (under SpecMQFair) ---------------------------------------------
\* C30: every dequeue call settles exactly once, with a message, with the timeout
\* error or with a close error: resolve or reject is invoked on it at most once, a
\* settled call keeps its outcome (a call resolved by enqueue is not rejected by its
\* timer or by close afterwards, a rejected call is not resolved afterwards), and a
\* waiting call does settle.
C30_SettlesExactlyOnce ==
    /\ [](\A c \in CallIds :
            /\ settleCalls[c] <= 1
            /\ outcome[c].kind = "pending" =>
                  settleCalls[c] = 0 /\ c \in timers /\ c \in Range(waitingResolvers)
            /\ outcome[c].kind \in {"value", "timeout", "closedError", "isClosedError"} =>
                  settleCalls[c] = 1 /\ c \notin timers /\ c \notin Range(waitingResolvers))
    /\ [][\A c \in CallIds :
            outcome[c].kind \notin {"none", "pending"} => outcome'[c] = outcome[c]]_vars
    /\ \A c \in CallIds :
          (outcome[c].kind = "pending") ~>
              (outcome[c].kind \in {"value", "timeout", "closedError"})

\* three calls waited: one was resolved by enqueue, one rejected by its timer, one
\* rejected by close
C30_Witness ==
    \E a, b, c \in CallIds :
        /\ outcome[a].kind = "value"
        /\ \E i \in DOMAIN delivered : delivered[i][1] = a /\ delivered[i][3] > 0
        /\ outcome[b].kind = "timeout"
        /\ outcome[c].kind = "closedError"

\* ---- C31 (under SpecBoth) -----------------------------------------------
\* the texts of the frames whose delta fills one of the given fields, concatenated
RECURSIVE C31_Texts(_, _)
C31_Texts(fs, fields) ==
    IF fs = <<>> THEN <<>>
    ELSE (IF Head(fs).frame.delta \in fields THEN Head(fs).text ELSE <<>>)
         \o C31_Texts(Tail(fs), fields)

\* the tool calls of the fs, in emission order
RECURSIVE C31_ToolCalls(_)
C31_ToolCalls(fs) ==
    IF fs = <<>> THEN <<>>
    ELSE (IF Head(fs).frame.toolIndex # -1
          THEN <<[name |-> Head(fs).name, arguments |-> Head(fs).arguments,
                  index |-> Head(fs).frame.toolIndex]>>
          ELSE <<>>)
         \o C31_ToolCalls(Tail(fs))

\* C31: for a Gemini response with one candidate that carries a finishReason, the
\* stream translator on a fresh state and the non-stream converter agree: the
\* streamed delta.content values concatenate to message.content, the streamed
\* delta.reasoning_content values to message.reasoning_content (an unset field
\* reading as the empty string), the streamed tool calls have the same names,
\* arguments and indices in the same order, and the final frame's finish_reason is
\* the non-stream finish_reason.
C31_StreamAgreesWithNonStream ==
    converted.done =>
        /\ C31_Texts(converted.frames, {"content", "image"})
               = converted.choice.message.content
        /\ C31_Texts(converted.frames, {"reasoning_content"})
               = converted.choice.message.reasoning_content
        /\ C31_ToolCalls(converted.frames) = converted.choice.message.tool_calls
        /\ converted.frames # <<>>
        /\ converted.frames[Len(converted.frames)].frame.finish_reason
               = converted.choice.finish_reason

\* a response whose parts are a thought, then a function call, with reason
\* MAX_TOKENS: both converters answer "tool_calls"
C31_Witness ==
    /\ converted.done
    /\ Len(converted.response.parts) = 2
    /\ converted.response.parts[1].thought
    /\ converted.response.parts[1].text = <<"a">>
    /\ converted.response.parts[2].functionCall.name = "g"
    /\ converted.response.finishReason = "MAX_TOKENS"
    /\ converted.choice.finish_reason = "tool_calls"
    /\ Len(converted.frames) = 3

\* ---- C32 (under SpecUrl) ------------------------------------------------
\* C32: in fake streaming mode the URL the Client Agent fetches has no query
\* parameter alt=sse and no :streamGenerateContent in its path, for every
\* descriptor, whether it gives its target as path and query_params or as url.
C32_FakeModeUrl ==
    (constructed.done /\ constructed.requestSpec.streaming_mode = "fake") =>
        /\ \A i \in DOMAIN constructed.url.query :
               ~(/\ constructed.url.query[i][1] = "alt"
                 /\ FormDecode(constructed.url.query[i][2]) = "sse")
        /\ \A i \in DOMAIN constructed.url.path :
               ~IsStreamSegment(constructed.url.path[i])

\* ---- C33 (under SpecHeaders) --------------------------------------------
\* a field whose name begins with sec-fetch-
C33_IsSecFetch(name) ==
    name \in {"sec-fetch-mode", "sec-fetch-site", "sec-fetch-dest", "sec-fetch-user"}

C33_Removed(name) ==
    \/ name \in {"host", "connection", "content-length", "origin", "referer",
                 "user-agent"}
    \/ C33_IsSecFetch(name)

\* C33 as stated: the headers passed to fetch contain none of host, connection,
\* content-length, origin, referer, user-agent and no field whose name begins with
\* sec-fetch-; every other header of the descriptor is passed through unchanged.
C33_NoSecFetchField ==
    sanitized.done =>
        /\ \A name \in DOMAIN sanitized.result : ~C33_Removed(name)
        /\ \A name \in DOMAIN sanitized.headers :
               ~C33_Removed(name) =>
                   /\ name \in DOMAIN sanitized.result
                   /\ sanitized.result[name] = sanitized.headers[name]

\* C33: the headers passed to fetch contain none of host, connection,
\* content-length, origin, referer, user-agent, sec-fetch-mode, sec-fetch-site and
\* sec-fetch-dest; every other header of the descriptor, any other sec-fetch-
\* field included, is passed through unchanged.
C33_ListedFieldsRemoved ==
    sanitized.done =>
        /\ \A name \in DOMAIN sanitized.result :
               name \notin {"host", "connection", "content-length", "origin", "referer",
                            "user-agent", "sec-fetch-mode", "sec-fetch-site",
                            "sec-fetch-dest"}
        /\ \A name \in DOMAIN sanitized.headers :
               name \notin {"host", "connection", "content-length", "origin", "referer",
                            "user-agent", "sec-fetch-mode", "sec-fetch-site",
                            "sec-fetch-dest"} =>
                   /\ name \in DOMAIN sanitized.result
                   /\ sanitized.result[name] = sanitized.headers[name]

\* a descriptor with sec-fetch-site, sec-fetch-user and content-type: the first is
\* removed, the other two are passed on
C33_Witness ==
    /\ sanitized.done
    /\ DOMAIN sanitized.headers = {"sec-fetch-site", "sec-fetch-user", "content-type"}
    /\ DOMAIN sanitized.result = {"sec-fetch-user", "content-type"}
    /\ sanitized.result["content-type"] = "v2"

\* ---- C34 (under SpecRedirect) -------------------------------------------
\* the response header was rewritten by _transmitHeaders
C34_Rewritten ==
    /\ redirected.done
    /\ redirected.name \in {"location", "x-goog-upload-url"}
    /\ redirected.value.host \in UpstreamHosts

\* C34: when a location or x-goog-upload-url response header that points at the
\* upstream origin is rewritten by the Client Agent and the rewritten URL is later
\* sent back in a descriptor, the URL the Client Agent fetches has the original
\* host, the original path and the original query (as the list of its decoded
\* parameters), and no __proxy_host__ parameter.
C34_RoundTrip ==
    C34_Rewritten =>
        /\ redirected.url.host = redirected.value.host
        /\ redirected.url.path = redirected.value.path
        /\ parseQuery(redirected.url.query) = parseQuery(redirected.value.query)
        /\ ~paramsHas(parseQuery(redirected.url.query), "__proxy_host__")

\* ---- C35 (under SpecSideBySide) -----------------------------------------
\* the chunks of one stream translated alone, from a fresh state
RECURSIVE C35_Alone(_, _, _)
C35_Alone(chunks, n, acc) ==
    IF n > Len(chunks) THEN acc
    ELSE LET out == translateChunk(chunks[n], acc.state, n, n) IN
         C35_Alone(chunks, n + 1,
                   [state |-> out.state, frames |-> acc.frames \o out.frames])

\* a frame without its id and created, which each run draws from the clock and the
\* random source
C35_Content(fs) ==
    [i \in DOMAIN fs |-> [frame |-> fs[i].frame, text |-> fs[i].text,
                          name |-> fs[i].name, arguments |-> fs[i].arguments,
                          hasId |-> fs[i].id # 0]]

\* C35: stream translation is isolated per request: when the chunks of two streams,
\* each with its own state object, are translated in any interleaving, the frames
\* of each stream (role placement, tool-call indices, finish_reason, usage, and
\* which frames carry an id and created) are those of the stream translated alone,
\* and all frames of one stream that carry an id share one id and one created.
C35_StreamsIsolated ==
    \A s \in StreamNames :
        /\ C35_Content(streams[s].frames) =
               C35_Content(C35_Alone(streams[s].chunks, 1,
                                     [state |-> FreshState, frames |-> <<>>]).frames)
        /\ \A i, j \in DOMAIN streams[s].frames :
               (streams[s].frames[i].id # 0 /\ streams[s].frames[j].id # 0) =>
                   /\ streams[s].frames[i].id = streams[s].frames[j].id
                   /\ streams[s].frames[i].created = streams[s].frames[j].created
        /\ \A i \in DOMAIN streams[s].frames :
               streams[s].frames[i].id \in {0, streams[s].state.id}

\* the chunks of B were translated between the two chunks of A, both streams
\* converted function calls and ended with "tool_calls", each under its own id
C35_Witness ==
    /\ Len(streams["A"].chunks) = 2 /\ Len(streams["B"].chunks) = 2
    /\ streams["A"].state.id = 1 /\ streams["B"].state.id = 2
    /\ clock = 4
    /\ Len(streams["A"].frames) = 4
    /\ streams["A"].frames[3].frame.toolIndex = 1
    /\ streams["A"].frames[4].frame.finish_reason = "tool_calls"
    /\ streams["A"].frames[4].frame.usage = 1
    /\ streams["B"].frames[Len(streams["B"].frames)].frame.finish_reason = "tool_calls"
    /\ streams["B"].frames[1].frame.role

\* ---- C36 (under SpecAuth) -----------------------------------------------
\* the indices whose identity file exists and parses, in ascending order
C36_ValidNow(dir, files) ==
    SortAscending(IF dir THEN {index \in AuthIndices : parses(files[index])} ELSE {})

\* C36: after every reloadAuthSources call, availableIndices is exactly the
\* ascending list of the indices whose identity file currently exists and parses,
\* also when the content of a file changed between two reloads while the set of
\* file names stayed the same.
C36_ReloadSeesCurrentFiles ==
    afterReload => availableIndices = C36_ValidNow(dirExists, authFiles)

\* ---- C37 (under SpecConnection) -----------------------------------------
\* C37: after the duplex channel closes, the Client Agent has aborted every
\* in-flight operation and a reconnect is scheduled or under way, also after every
\* failed attempt; at most one socket is connected at any time; and if the server
\* endpoint becomes and stays reachable the channel is eventually re-established.
C37_Reconnects ==
    /\ [](~isConnected =>
              /\ activeOperations = {}
              /\ \A id \in Ids : pc[id] \in {"fetch", "read"} => aborted[id]
              /\ reconnectTimers + connecting = 1)
    /\ [](openSockets <= 1 /\ (isConnected <=> openSockets = 1))
    /\ [][~isConnected' /\ (isConnected \/ connecting' < connecting) =>
              reconnectTimers' = reconnectTimers + 1]_vars
    /\ (~isConnected /\ reachable) ~> (isConnected \/ ~reachable)

\* the channel closed with a fetch in flight, an attempt to reconnect failed, and
\* the next one is waiting for its timer
C37_Witness ==
    /\ ~isConnected
    /\ reconnectAttempts = 2
    /\ reconnectTimers = 1
    /\ \E id \in Ids : pc[id] = "fetch" /\ aborted[id]

\* ---- C38 (under SpecLogin) ----------------------------------------------
\* C38: with login rate limiting enabled, the failed-attempt counter of a client IP
\* never exceeds the configured maximum; once it has reached the maximum, every
\* login attempt from that IP inside the window (measured from the first failed
\* attempt), one with a valid API key included, is rejected without authenticating
\* the session and without changing the counter; a successful login clears the
\* IP's counter.
C38_RateLimit ==
    /\ \A ip \in ClientIPs : countOf(loginAttempts, ip) <= MaxFailures
    /\ (lastLogin.result # "none" /\ lastLogin.limitedBefore) =>
           /\ lastLogin.result = "limited"
           /\ lastLogin.after = lastLogin.before
           /\ loginAttempts[lastLogin.ip] = lastLogin.before
           /\ (lastLogin.ip \in authenticated) = lastLogin.wasAuthenticated
    /\ lastLogin.result = "ok" =>
           /\ loginAttempts[lastLogin.ip] = NoAttempts
           /\ lastLogin.ip \in authenticated

\* an IP that has used up its attempts presents a valid key inside the window and
\* is turned away
C38_Witness ==
    /\ lastLogin.result = "limited"
    /\ lastLogin.validKey
    /\ lastLogin.limitedBefore
    /\ lastLogin.before.count = MaxFailures
    /\ dateNow > lastLogin.before.firstAttempt
    /\ lastLogin.ip \notin authenticated


\* the starts that hold the mutex: past the flag, not yet answered
C39_Running == {c \in StartIds : starts[c] \notin {"none", "done"}}

\* C39: at most one startVncSession call is in progress at any time; the flag is
\* set exactly while one is; a call that arrives while the flag is set is
\* answered 429 and leaves the processes, this.vncSession, every
\* sessionResources object and the flag as they were; and whenever the flag is
\* set it is cleared again, whether the start succeeds or fails
C39_OneStartAtATime ==
    /\ [](Cardinality(C39_Running) <= 1)
    /\ [](isVncOperationInProgress <=> C39_Running # {})
    /\ [][\A c \in StartIds :
            starts[c] = "none" /\ starts'[c] # "none" /\ isVncOperationInProgress
            /\ platform' # "win32" =>
                /\ responses'[c] = 429
                /\ starts'[c] = "done"
                /\ living' = living
                /\ vncSession' = vncSession
                /\ sessionResources' = sessionResources
                /\ isVncOperationInProgress']_vars
    /\ (isVncOperationInProgress ~> ~isVncOperationInProgress)

\* a call was refused with 429, the start it collided with failed, and a later
\* call got through and succeeded
C39_Witness ==
    /\ \E c, d, e \in StartIds :
        /\ c < d /\ d < e
        /\ responses[c] = 500
        /\ responses[d] = 429
        /\ responses[e] = 200
    /\ ~isVncOperationInProgress

\* C40: once a start is answered 500, nothing it spawned or launched still runs
C40_FailedStartLeavesNothing ==
    \A c \in StartIds :
        responses[c] = 500 => \A n \in ResourceNames : <<c, n>> \notin living

====
